---- MODULE Spec2Model ----
(***************************************************************************)
(* A model of the markup parser and paragraph renderer of antsibull-rs     *)
(* (src/markup/parse.rs, src/markup/format.rs and the per-backend          *)
(* paragraph wrappers).                                                    *)
(*                                                                         *)
(* Strings are sequences of one-character strings; offsets are 0-based as  *)
(* in the source.  Option<T> is a sequence of length 0 (None) or 1 (Some). *)
(* Formatted messages are sequences whose elements are either characters   *)
(* or the literal pieces of the format string.                             *)
(***************************************************************************)
EXTENDS Integers, Sequences, FiniteSets, TLC

\* ------------------------------------------------------------------------
\* Bounds of the model
\* ------------------------------------------------------------------------

\* Maximal number of fragments an input paragraph is composed of.
MaxFrags == 3

\* Maximal number of fragments of the inputs of the argument-collector model.
MaxArgFrags == 5

\* Maximal number of fragments of the paragraphs that are rendered.
MaxRenderFrags == 3

\* Maximal number of fragments of the argument of an O or RV command.
MaxNameFrags == 5

\* Maximal number of fragments of a qualified argument of an O or RV command.
MaxQualFrags == 4

\* Maximal number of fragments of a plugin name in an M, P or O command.
MaxFqcnFrags == 4

\* Maximal number of commands of a paragraph whose links are computed.
MaxLinkParts == 2

\* ------------------------------------------------------------------------
\* Strings
\* ------------------------------------------------------------------------

None == <<>>

Some(x) == <<x>>

IsSome(o) == Len(o) = 1

Unwrap(o) == o[1]

\* input[i] for a 0-based offset i
At(s, i) == s[i + 1]

\* &input[a..b] for 0-based offsets a <= b
Slice(s, a, b) == SubSeq(s, a + 1, b)

RECURSIVE Flatten(_)
Flatten(ss) == IF ss = <<>> THEN <<>> ELSE Head(ss) \o Flatten(Tail(ss))

Lower == {"a", "b", "c", "d", "e", "f", "g", "h", "i", "j", "k", "l", "m",
          "n", "o", "p", "q", "r", "s", "t", "u", "v", "w", "x", "y", "z"}

Upper == {"A", "B", "C", "D", "E", "F", "G", "H", "I", "J", "K", "L", "M",
          "N", "O", "P", "Q", "R", "S", "T", "U", "V", "W", "X", "Y", "Z"}

Digit == {"0", "1", "2", "3", "4", "5", "6", "7", "8", "9"}

\* The characters \w and \b of the regex crate treat as word characters
\* (restricted to ASCII).
IsWordChar(c) == c \in Lower \cup Upper \cup Digit \cup {"_"}

\* Is there a word character at 0-based offset i of s?
WordAt(s, i) == i >= 0 /\ i < Len(s) /\ IsWordChar(At(s, i))

\* \b at offset i
WordBoundary(s, i) == WordAt(s, i - 1) # WordAt(s, i)

\* Does s contain pat at offset i?
HasAt(s, pat, i) ==
    i + Len(pat) <= Len(s) /\ \A j \in 1..Len(pat) : s[i + j] = pat[j]

DigitChar(d) == CASE d = 0 -> "0" [] d = 1 -> "1" [] d = 2 -> "2" [] d = 3 -> "3"
                  [] d = 4 -> "4" [] d = 5 -> "5" [] d = 6 -> "6" [] d = 7 -> "7"
                  [] d = 8 -> "8" [] d = 9 -> "9"

\* format!("{}", n) for an unsigned integer
RECURSIVE Display(_)
Display(n) == IF n < 10 THEN <<DigitChar(n)>>
              ELSE Display(n \div 10) \o <<DigitChar(n % 10)>>

\* char::escape_debug as used by format!("{:?}", str)
EscapeDebug(c) == IF c = "\\" THEN <<"\\", "\\">>
                  ELSE IF c = "\"" THEN <<"\\", "\"">>
                  ELSE IF c = "\n" THEN <<"\\", "n">>
                  ELSE <<c>>

\* format!("{:?}", s) for a string s
Debug(s) == <<"\"">> \o Flatten([i \in 1..Len(s) |-> EscapeDebug(s[i])]) \o <<"\"">>

\* ------------------------------------------------------------------------
\* Command table (parse.rs 19-78)
\* ------------------------------------------------------------------------

new_classic(command, command_match, parameters) ==
    [command |-> command, command_match |-> command_match,
     parameters |-> parameters, escaped_arguments |-> FALSE, old_markup |-> TRUE]

new_modern(command, command_match, parameters) ==
    [command |-> command, command_match |-> command_match,
     parameters |-> parameters, escaped_arguments |-> TRUE, old_markup |-> FALSE]

HL == <<"H", "O", "R", "I", "Z", "O", "N", "T", "A", "L", "L", "I", "N", "E">>

ITALICS == new_classic(<<"I">>, <<"I", "(">>, 1)
BOLD == new_classic(<<"B">>, <<"B", "(">>, 1)
MODULE_CMD == new_classic(<<"M">>, <<"M", "(">>, 1)
URL == new_classic(<<"U">>, <<"U", "(">>, 1)
LINK == new_classic(<<"L">>, <<"L", "(">>, 2)
RSTREF == new_classic(<<"R">>, <<"R", "(">>, 2)
CODE == new_classic(<<"C">>, <<"C", "(">>, 1)
HORIZONTAL_LINE == new_classic(HL, HL, 0)
PLUGIN == new_modern(<<"P">>, <<"P", "(">>, 1)
ENVVAR == new_modern(<<"E">>, <<"E", "(">>, 1)
OPTION_VALUE == new_modern(<<"V">>, <<"V", "(">>, 1)
OPTION_NAME == new_modern(<<"O">>, <<"O", "(">>, 1)
RETURN_VALUE == new_modern(<<"R", "V">>, <<"R", "V", "(">>, 1)

ALL_COMMANDS == <<ITALICS, BOLD, MODULE_CMD, URL, LINK, RSTREF, CODE, HORIZONTAL_LINE,
                  PLUGIN, ENVVAR, OPTION_VALUE, OPTION_NAME, RETURN_VALUE>>

\* ALL_COMMANDS.iter().filter(|c| c.old_markup)
CLASSIC_MARKUP_PARSER == SelectSeq(ALL_COMMANDS, LAMBDA c : c.old_markup)

FULL_PARSER == ALL_COMMANDS

\* The commands of the parser a StringParser refers to
ParserCommands(parser) ==
    IF parser = "CLASSIC_MARKUP_PARSER" THEN CLASSIC_MARKUP_PARSER ELSE FULL_PARSER

\* ------------------------------------------------------------------------
\* Regular expressions of Parser::new (parse.rs 96-139)
\* ------------------------------------------------------------------------

Min(S) == CHOOSE x \in S : \A y \in S : x <= y

\* An alternative of the command regex without its leading \b
command_alternative_unanchored(command, s, i) ==
    /\ HasAt(s, command.command_match, i)
    /\ (command.parameters = 0 => WordBoundary(s, i + Len(command.command_match)))

\* An alternative of the command regex without the trailing \b of a command
\* without parameters
command_alternative_open_ended(command, s, i) ==
    /\ HasAt(s, command.command_match, i)
    /\ WordBoundary(s, i)

\* One alternative of the command regex at offset i: \b, the escaped prefix,
\* and a second \b for a command without parameters.
command_alternative_matches(command, s, i) ==
    /\ HasAt(s, command.command_match, i)
    /\ WordBoundary(s, i)
    /\ (command.parameters = 0 => WordBoundary(s, i + Len(command.command_match)))

\* Does the command regex match at offset i?
regex_is_match_at(commands, s, i) ==
    \E k \in 1..Len(commands) : command_alternative_matches(commands[k], s, i)

\* The match of the alternative for command at offset start
regex_match(command, start) ==
    Some([start |-> start, end |-> start + Len(command.command_match),
          as_str |-> command.command_match])

\* The first alternative of the command regex that matches at offset start
regex_first_alternative(commands, s, start) ==
    commands[Min({k \in 1..Len(commands) :
                     command_alternative_matches(commands[k], s, start)})]

\* The leftmost match, given the offsets at which the command regex matches
regex_leftmost(commands, s, starts) ==
    IF starts = {} THEN None
    ELSE regex_match(regex_first_alternative(commands, s, Min(starts)), Min(starts))

\* parser.regex.find_at(input, position): the leftmost match at or after
\* position, of the first alternative that matches there.
regex_find_at(commands, s, position) ==
    regex_leftmost(commands, s,
                   {i \in position..(Len(s) - 1) : regex_is_match_at(commands, s, i)})

\* parser.command_map.get(m.as_str())
command_map_get(commands, as_str) ==
    SelectSeq(commands, LAMBDA c : c.command_match = as_str)

\* "\\." at offset i: a backslash followed by any character except newline
escape_matches_at(s, i) ==
    i + 1 < Len(s) /\ At(s, i) = "\\" /\ At(s, i + 1) # "\n"

\* The offset of the first character at or after i that is not a space
RECURSIVE skip_spaces(_, _)
skip_spaces(s, i) ==
    IF i < Len(s) /\ At(s, i) = " " THEN skip_spaces(s, i + 1) ELSE i

\* " *, *" at offset i
comma_matches_at(s, i) == skip_spaces(s, i) < Len(s) /\ At(s, skip_spaces(s, i)) = ","

\* The match of "\\.| *, *" at offset start
escape_or_comma_match(s, start) ==
    [start |-> start,
     end |-> IF escape_matches_at(s, start) THEN start + 2
             ELSE skip_spaces(s, skip_spaces(s, start) + 1)]

\* The match of "\\.|\)" at offset start
escape_or_closing_match(s, start) ==
    [start |-> start, end |-> IF escape_matches_at(s, start) THEN start + 2 ELSE start + 1]

\* escape_or_comma.find_at(input, position) and
\* escape_or_closing.find_at(input, position): the leftmost match
escape_or_leftmost(s, starts, closing) ==
    IF starts = {} THEN None
    ELSE IF closing THEN Some(escape_or_closing_match(s, Min(starts)))
    ELSE Some(escape_or_comma_match(s, Min(starts)))

escape_or_comma_find_at(s, position) ==
    escape_or_leftmost(s, {i \in position..(Len(s) - 1) :
                              escape_matches_at(s, i) \/ comma_matches_at(s, i)}, FALSE)

escape_or_closing_find_at(s, position) ==
    escape_or_leftmost(s, {i \in position..(Len(s) - 1) :
                              escape_matches_at(s, i) \/ At(s, i) = ")"}, TRUE)

\* The least element of a set of offsets, if any
First(found) == IF found = {} THEN None ELSE Some(Min(found))

\* find_at(slice, pat, at) for a one-character pattern (parse.rs 225-227)
find_at(s, pat, at) == First({i \in at..(Len(s) - 1) : At(s, i) = pat})

\* [a-z0-9_]+
IsIdent(s) == Len(s) > 0 /\ \A i \in 1..Len(s) : s[i] \in Lower \cup Digit \cup {"_"}

\* s.split_once(sep) at the offset found, if any
split_at(s, found) ==
    IF found = None THEN None
    ELSE Some(<<Slice(s, 0, Unwrap(found)), Slice(s, Unwrap(found) + 1, Len(s))>>)

\* s.split_once(sep) for a one-character separator
split_once(s, sep) == split_at(s, find_at(s, sep, 0))

\* s.split(sep) for a one-character separator: never empty
RECURSIVE Split(_, _)
RECURSIVE split_rest(_, _, _)
split_rest(s, sep, once) ==
    IF once = None THEN <<s>> ELSE <<Unwrap(once)[1]>> \o Split(Unwrap(once)[2], sep)

Split(s, sep) == split_rest(s, sep, split_once(s, sep))

\* ^[a-z0-9_]+\.[a-z0-9_]+(?:\.[a-z0-9_]+)+$ on the dot-separated pieces
is_fqcn_pieces(pieces) ==
    Len(pieces) >= 3 /\ \A i \in 1..Len(pieces) : IsIdent(pieces[i])

\* fqcn_re that accepts a name of two pieces
is_fqcn_of_two(fqcn) ==
    Len(Split(fqcn, ".")) >= 2 /\ \A i \in 1..Len(Split(fqcn, ".")) : IsIdent(Split(fqcn, ".")[i])

\* fqcn_re.is_match(fqcn)   (parse.rs 141-143)
is_fqcn(fqcn) == is_fqcn_pieces(Split(fqcn, "."))

\* plugin_type_re.is_match(plugin_type): ^[a-z_]+$   (parse.rs 145-147)
is_plugin_type(plugin_type) ==
    /\ Len(plugin_type) > 0
    /\ \A i \in 1..Len(plugin_type) : plugin_type[i] \in Lower \cup {"_"}

\* ------------------------------------------------------------------------
\* Tokens and StringParser (parse.rs 159-502)
\* ------------------------------------------------------------------------

TokenText(text, start, end) ==
    [type |-> "Text", text |-> text, start |-> start, end |-> end]

TokenUnescapedCommand(command, parameters, start, end) ==
    [type |-> "UnescapedCommand", command |-> command, parameters |-> parameters,
     start |-> start, end |-> end]

TokenEscapedCommand(command, parameters, start, end) ==
    [type |-> "EscapedCommand", command |-> command, parameters |-> parameters,
     start |-> start, end |-> end]

TokenError(message, start, end) ==
    [type |-> "Error", message |-> message, start |-> start, end |-> end]

\* The source slice of a token, as the pair of its offsets in the input
get_source(token) == [start |-> token.start, end |-> token.end]

\* StringParser::new
StringParser_new(input, parser, strict, helpful_errors, where) ==
    [input |-> input, length |-> Len(input), position |-> 0, tokens |-> <<>>,
     parser |-> parser, strict |-> strict, helpful_errors |-> helpful_errors,
     where |-> where]

\* push_text without the assignment to self.position
push_text_keeps_position(self, until) ==
    [self EXCEPT !.tokens = Append(@, TokenText(Slice(self.input, self.position, until),
                                                self.position, until))]

push_text(self, until) ==
    [self EXCEPT !.tokens = Append(@, TokenText(Slice(self.input, self.position, until),
                                                self.position, until)),
                 !.position = until]

RECURSIVE strip_left_loop(_, _, _)
strip_left_loop(input, l, r) ==
    IF l < r /\ At(input, l) = " " THEN strip_left_loop(input, l + 1, r) ELSE l

RECURSIVE strip_right_loop(_, _, _)
strip_right_loop(input, l, r) ==
    IF l < r /\ At(input, r) = " " THEN strip_right_loop(input, l, r - 1) ELSE r

\* The second loop of strip, entered with the l the first loop computed
strip_second(input, l, right, strip_right) ==
    <<l, IF strip_right THEN strip_right_loop(input, l, right) ELSE right>>

strip(self, left, right, strip_left, strip_right) ==
    strip_second(self.input,
                 IF strip_left THEN strip_left_loop(self.input, left, right) ELSE left,
                 right, strip_right)

UnnecessarilyEscaped(escaped) == <<"Unnecessarily escaped ">> \o Debug(escaped)

\* The text _process_match pushes to the argument before it looks at the match
process_match_text(self, m) ==
    IF m.start > self.position THEN Slice(self.input, self.position, m.start) ELSE <<>>

\* _process_match: the new position and argument, and the Result:
\* "closed" for Ok(true), "more" for Ok(false), "err" for Err(error).
process_match(self, m, argument) ==
    IF At(self.input, m.start) # "\\"
    THEN [position |-> m.end, argument |-> argument \o process_match_text(self, m),
          result |-> "closed", error |-> <<>>]
    ELSE IF /\ self.strict
            /\ Slice(self.input, m.start + 1, m.end) # <<")">>
            /\ Slice(self.input, m.start + 1, m.end) # <<"\\">>
    THEN [position |-> m.end, argument |-> argument \o process_match_text(self, m),
          result |-> "err",
          error |-> UnnecessarilyEscaped(Slice(self.input, m.start + 1, m.end))]
    ELSE [position |-> m.end,
          argument |-> argument \o process_match_text(self, m)
                       \o Slice(self.input, m.start + 1, m.end),
          result |-> "more", error |-> <<>>]

\* The message that counts the parameters from 0
CannotFindComma_from_zero(n) ==
    <<"Cannot find comma separating parameter ">> \o Display(n - 1)
    \o <<" from the next one">>

CannotFindComma(n) ==
    <<"Cannot find comma separating parameter ">> \o Display(n) \o <<" from the next one">>

CannotFindClosing == <<"Cannot find closing \")\" after last parameter">>

\* The inner loops of parse_escaped_call, which collect one argument each;
\* closing tells whether the argument is the last one.
RECURSIVE escaped_argument_loop(_, _, _, _, _)
RECURSIVE escaped_argument_matched(_, _, _, _, _)
escaped_argument_matched(self, closing, count, commas_left, r) ==
    IF r.result = "more"
    THEN escaped_argument_loop([self EXCEPT !.position = r.position], r.argument,
                               closing, count, commas_left)
    ELSE [position |-> r.position, ok |-> r.result = "closed", argument |-> r.argument,
          error |-> r.error]

escaped_argument_found(self, argument, closing, count, commas_left, found) ==
    IF found = None
    THEN [position |-> self.length, ok |-> FALSE, argument |-> argument,
          error |-> IF closing THEN CannotFindClosing
                    ELSE CannotFindComma(count - commas_left)]
    ELSE escaped_argument_matched(self, closing, count, commas_left,
                                  process_match(self, Unwrap(found), argument))

escaped_argument_loop(self, argument, closing, count, commas_left) ==
    escaped_argument_found(self, argument, closing, count, commas_left,
                           IF closing
                           THEN escape_or_closing_find_at(self.input, self.position)
                           ELSE escape_or_comma_find_at(self.input, self.position))

\* The loop of parse_escaped_call over the arguments
RECURSIVE escaped_call_loop(_, _, _, _)
escaped_call_collected(self, parameters, count, commas_left, a) ==
    IF ~a.ok
    THEN [self |-> [self EXCEPT !.position = a.position], ok |-> FALSE,
          parameters |-> <<>>, error |-> a.error]
    ELSE IF commas_left = 0
    THEN [self |-> [self EXCEPT !.position = a.position], ok |-> TRUE,
          parameters |-> Append(parameters, a.argument), error |-> <<>>]
    ELSE escaped_call_loop([self EXCEPT !.position = a.position],
                           Append(parameters, a.argument), count, commas_left - 1)

escaped_call_loop(self, parameters, count, commas_left) ==
    escaped_call_collected(self, parameters, count, commas_left,
        escaped_argument_loop(self, <<>>, commas_left = 0, count, commas_left))

parse_escaped_call(self, count) ==
    IF count = 0 THEN [self |-> self, ok |-> TRUE, parameters |-> <<>>, error |-> <<>>]
    ELSE escaped_call_loop(self, <<>>, count, count - 1)

\* The loop of parse_unescaped_call over the arguments
RECURSIVE unescaped_call_loop(_, _, _, _, _)
unescaped_call_stripped(self, parameters, count, commas_left, index, se) ==
    IF commas_left > 0
    THEN unescaped_call_loop([self EXCEPT !.position = index + 1],
                             Append(parameters, Slice(self.input, se[1], se[2])),
                             count, commas_left - 1, FALSE)
    ELSE [self |-> [self EXCEPT !.position = index + 1], ok |-> TRUE,
          parameters |-> Append(parameters, Slice(self.input, se[1], se[2])),
          error |-> <<>>]

unescaped_call_found(self, parameters, count, commas_left, first, found) ==
    IF found = None
    THEN [self |-> [self EXCEPT !.position = self.length], ok |-> FALSE,
          parameters |-> <<>>,
          error |-> IF commas_left > 0 THEN CannotFindComma(count - commas_left)
                    ELSE CannotFindClosing]
    ELSE unescaped_call_stripped(self, parameters, count, commas_left, Unwrap(found),
             strip(self, self.position, Unwrap(found), ~first, commas_left > 0))

unescaped_call_loop(self, parameters, count, commas_left, first) ==
    unescaped_call_found(self, parameters, count, commas_left, first,
        find_at(self.input, IF commas_left > 0 THEN "," ELSE ")", self.position))

parse_unescaped_call(self, count) ==
    IF count = 0 THEN [self |-> self, ok |-> TRUE, parameters |-> <<>>, error |-> <<>>]
    ELSE unescaped_call_loop(self, <<>>, count, count - 1, TRUE)

\* _compose_parsing_error reporting the 0-based offset
compose_parsing_error_zero_based(self, command, start, end, error) ==
    <<"While parsing ">>
    \o (IF self.helpful_errors
        THEN <<"\"">> \o Slice(self.input, start, end) \o <<"\"">>
        ELSE command.command \o (IF command.parameters > 0 THEN <<"(", ")">> ELSE <<>>))
    \o <<" at index ">> \o Display(start)
    \o (IF IsSome(self.where) THEN Unwrap(self.where) ELSE <<>>)
    \o <<": ">> \o error

compose_parsing_error(self, command, start, end, error) ==
    <<"While parsing ">>
    \o (IF self.helpful_errors
        THEN <<"\"">> \o Slice(self.input, start, end) \o <<"\"">>
        ELSE command.command \o (IF command.parameters > 0 THEN <<"(", ")">> ELSE <<>>))
    \o <<" at index ">> \o Display(start + 1)
    \o (IF IsSome(self.where) THEN Unwrap(self.where) ELSE <<>>)
    \o <<": ">> \o error

InternalError(as_str, position) ==
    <<"Internal error: cannot find command ">> \o Debug(as_str) \o <<" at ">>
    \o Display(position)

\* command_token with the end of the prefix match as the end of every token
command_token_prefix_end(m, command, call) ==
    IF ~call.ok
    THEN TokenError(compose_parsing_error(call.self, command, m.start, m.end, call.error),
                    m.start, m.end)
    ELSE IF command.escaped_arguments
    THEN TokenEscapedCommand(command, call.parameters, m.start, m.end)
    ELSE TokenUnescapedCommand(command, call.parameters, m.start, m.end)

\* The token prepare_tokens pushes for a command, from the result of its
\* argument collector
command_token(m, command, call) ==
    IF ~call.ok
    THEN TokenError(compose_parsing_error(call.self, command, m.start,
                                          call.self.position, call.error),
                    m.start, call.self.position)
    ELSE IF command.escaped_arguments
    THEN TokenEscapedCommand(command, call.parameters, m.start, call.self.position)
    ELSE TokenUnescapedCommand(command, call.parameters, m.start, call.self.position)

prepare_tokens_call(m, command, call) ==
    [call.self EXCEPT !.tokens = Append(@, command_token(m, command, call))]

prepare_tokens_command(self, m, command) ==
    prepare_tokens_call(m, command,
        IF command.escaped_arguments
        THEN parse_escaped_call([self EXCEPT !.position = m.end], command.parameters)
        ELSE parse_unescaped_call([self EXCEPT !.position = m.end], command.parameters))

prepare_tokens_lookup(self, m, looked_up) ==
    IF looked_up = None
    THEN [self EXCEPT !.tokens = Append(@,
             TokenError(InternalError(m.as_str, self.position), m.start, m.end))]
    ELSE prepare_tokens_command(self, m, Unwrap(looked_up))

prepare_tokens_match(self, m) ==
    prepare_tokens_lookup(IF m.start > self.position THEN push_text(self, m.start) ELSE self,
                          m, command_map_get(ParserCommands(self.parser), m.as_str))

prepare_tokens_found(self, found) ==
    IF found = None THEN push_text(self, self.length)
    ELSE prepare_tokens_match(self, Unwrap(found))

prepare_tokens(self) ==
    prepare_tokens_found(self,
        regex_find_at(ParserCommands(self.parser), self.input, self.position))

\* ------------------------------------------------------------------------
\* Parts (dom.rs) and part construction (parse.rs 504-748)
\* ------------------------------------------------------------------------

PluginIdentifier(fqcn, type) == [fqcn |-> fqcn, type |-> type]

Context(current_plugin, role_entrypoint) ==
    [current_plugin |-> current_plugin, role_entrypoint |-> role_entrypoint]

PartText(text) == [variant |-> "Text", text |-> text]
PartItalic(text) == [variant |-> "Italic", text |-> text]
PartBold(text) == [variant |-> "Bold", text |-> text]
PartCode(text) == [variant |-> "Code", text |-> text]
PartModule(fqcn) == [variant |-> "Module", fqcn |-> fqcn]
PartPlugin(plugin) == [variant |-> "Plugin", plugin |-> plugin]
PartURL(url) == [variant |-> "URL", url |-> url]
PartLink(text, url) == [variant |-> "Link", text |-> text, url |-> url]
PartRSTRef(text, ref) == [variant |-> "RSTRef", text |-> text, ref |-> ref]
PartOptionName(plugin, entrypoint, link, name, value) ==
    [variant |-> "OptionName", plugin |-> plugin, entrypoint |-> entrypoint,
     link |-> link, name |-> name, value |-> value]
PartOptionValue(value) == [variant |-> "OptionValue", value |-> value]
PartEnvVariable(name) == [variant |-> "EnvVariable", name |-> name]
PartReturnValue(plugin, entrypoint, link, name, value) ==
    [variant |-> "ReturnValue", plugin |-> plugin, entrypoint |-> entrypoint,
     link |-> link, name |-> name, value |-> value]
PartHorizontalLine == [variant |-> "HorizontalLine"]
PartError(message) == [variant |-> "Error", message |-> message]

IGNORE_MARKER == <<"i", "g", "n", "o", "r", "e", ":">>

ROLE == <<"r", "o", "l", "e">>

Contains(s, c) == \E i \in 1..Len(s) : s[i] = c

StartsWith(s, prefix) == HasAt(s, prefix, 0)

\* fqcn_type_prefix_re.captures(text): ^([^.]+\.[^.]+\.[^#]+)#([^:]+):(.*)$
\* The three captures and the start offset of the third, from the offsets of
\* the two dots, the '#' and the ':' that delimit them.
fqcn_type_prefix_colon(text, hash, colon) ==
    IF colon = None THEN None
    ELSE IF Unwrap(colon) = hash + 1 \/ Contains(Slice(text, Unwrap(colon) + 1, Len(text)), "\n")
    THEN None
    ELSE Some([c1 |-> Slice(text, 0, hash),
               c2 |-> Slice(text, hash + 1, Unwrap(colon)),
               c3 |-> Slice(text, Unwrap(colon) + 1, Len(text)),
               c3_start |-> Unwrap(colon) + 1])

fqcn_type_prefix_hash(text, dot2, hash) ==
    IF hash = None THEN None
    ELSE IF Unwrap(hash) = dot2 + 1 THEN None
    ELSE fqcn_type_prefix_colon(text, Unwrap(hash), find_at(text, ":", Unwrap(hash) + 1))

fqcn_type_prefix_dot2(text, dot1, dot2) ==
    IF dot2 = None THEN None
    ELSE IF Unwrap(dot2) = dot1 + 1 THEN None
    ELSE fqcn_type_prefix_hash(text, Unwrap(dot2), find_at(text, "#", Unwrap(dot2) + 1))

fqcn_type_prefix_dot1(text, dot1) ==
    IF dot1 = None THEN None
    ELSE IF Unwrap(dot1) = 0 THEN None
    ELSE fqcn_type_prefix_dot2(text, Unwrap(dot1), find_at(text, ".", Unwrap(dot1) + 1))

fqcn_type_prefix_captures(text) == fqcn_type_prefix_dot1(text, find_at(text, ".", 0))

\* array_stub_re.replace_all that replaces nothing
remove_array_stubs_kept(text) == text

\* array_stub_re.replace_all(text, ""): \[([^\]]*)\]
RECURSIVE remove_array_stubs(_)
remove_array_stub(text, open, close) ==
    IF close = None THEN text
    ELSE Slice(text, 0, open) \o remove_array_stubs(Slice(text, Unwrap(close) + 1, Len(text)))

remove_array_stub_from(text, open) ==
    IF open = None THEN text
    ELSE remove_array_stub(text, Unwrap(open), find_at(text, "]", Unwrap(open) + 1))

remove_array_stubs(text) == remove_array_stub_from(text, find_at(text, "[", 0))

NotAFqcn(fqcn) == <<"Plugin name ">> \o Debug(fqcn) \o <<" is not a FQCN">>

PluginTypeNotValid(plugin_type) ==
    <<"Plugin type ">> \o Debug(plugin_type) \o <<" is not valid">>

MissingEntrypoint == <<"Role reference is missing entrypoint">>

InvalidOptionName(text) == <<"Invalid option/return value name ">> \o Debug(text)

\* The end of _parse_option_like without the check of the entrypoint
parse_option_like_name_unchecked(text, plugin, entrypoint, value, is_role) ==
    IF Contains(text, ":") \/ Contains(text, "#")
    THEN [ok |-> FALSE, error |-> InvalidOptionName(text)]
    ELSE [ok |-> TRUE, plugin |-> plugin, entrypoint |-> entrypoint,
          link |-> Split(remove_array_stubs(text), "."), name |-> text, value |-> value]

\* The end of _parse_option_like with a name check that accepts ':'
parse_option_like_name_with_colon(text, plugin, entrypoint, value, is_role) ==
    IF is_role /\ entrypoint = None
    THEN [ok |-> FALSE, error |-> MissingEntrypoint]
    ELSE IF Contains(text, "#")
    THEN [ok |-> FALSE, error |-> InvalidOptionName(text)]
    ELSE [ok |-> TRUE, plugin |-> plugin, entrypoint |-> entrypoint,
          link |-> Split(remove_array_stubs(text), "."), name |-> text, value |-> value]

\* The end of _parse_option_like (parse.rs 573-594)
parse_option_like_name(text, plugin, entrypoint, value, is_role) ==
    IF is_role /\ entrypoint = None
    THEN [ok |-> FALSE, error |-> MissingEntrypoint]
    ELSE IF Contains(text, ":") \/ Contains(text, "#")
    THEN [ok |-> FALSE, error |-> InvalidOptionName(text)]
    ELSE [ok |-> TRUE, plugin |-> plugin, entrypoint |-> entrypoint,
          link |-> Split(remove_array_stubs(text), "."), name |-> text, value |-> value]

\* The split of a role reference at its first ':' (parse.rs 566-572)
parse_option_like_split_role(text, plugin, entrypoint, value, is_role, colon) ==
    IF is_role /\ IsSome(colon)
    THEN parse_option_like_name(Unwrap(colon)[2], plugin, Some(Unwrap(colon)[1]), value,
                                is_role)
    ELSE parse_option_like_name(text, plugin, entrypoint, value, is_role)

\* _parse_option_like from the role check on (parse.rs 564-594); p is the
\* outcome of the plugin determination
parse_option_like_role(p, value) ==
    IF ~p.ok THEN p
    ELSE parse_option_like_split_role(p.text, p.plugin, p.entrypoint, value,
             IsSome(p.plugin) /\ Unwrap(p.plugin).type = ROLE, split_once(p.text, ":"))

\* The plugin determination that inherits nothing from the context
parse_option_like_plugin_uninherited(text, context, capture) ==
    IF IsSome(capture)
    THEN IF ~is_fqcn(Unwrap(capture).c1)
         THEN [ok |-> FALSE, error |-> NotAFqcn(Unwrap(capture).c1)]
         ELSE IF ~is_plugin_type(Unwrap(capture).c2)
         THEN [ok |-> FALSE, error |-> PluginTypeNotValid(Unwrap(capture).c2)]
         ELSE [ok |-> TRUE, text |-> Slice(text, Unwrap(capture).c3_start, Len(text)),
               plugin |-> Some(PluginIdentifier(Unwrap(capture).c1, Unwrap(capture).c2)),
               entrypoint |-> None]
    ELSE IF StartsWith(text, IGNORE_MARKER)
    THEN [ok |-> TRUE, text |-> Slice(text, Len(IGNORE_MARKER), Len(text)),
          plugin |-> None, entrypoint |-> None]
    ELSE [ok |-> TRUE, text |-> text, plugin |-> None, entrypoint |-> None]

\* The plugin determination that inherits from the context after 'ignore:'
parse_option_like_plugin_ignore_inherits(text, context, capture) ==
    IF IsSome(capture)
    THEN IF ~is_fqcn(Unwrap(capture).c1)
         THEN [ok |-> FALSE, error |-> NotAFqcn(Unwrap(capture).c1)]
         ELSE IF ~is_plugin_type(Unwrap(capture).c2)
         THEN [ok |-> FALSE, error |-> PluginTypeNotValid(Unwrap(capture).c2)]
         ELSE [ok |-> TRUE, text |-> Slice(text, Unwrap(capture).c3_start, Len(text)),
               plugin |-> Some(PluginIdentifier(Unwrap(capture).c1, Unwrap(capture).c2)),
               entrypoint |-> None]
    ELSE IF StartsWith(text, IGNORE_MARKER)
    THEN [ok |-> TRUE, text |-> Slice(text, Len(IGNORE_MARKER), Len(text)),
          plugin |-> context.current_plugin, entrypoint |-> context.role_entrypoint]
    ELSE [ok |-> TRUE, text |-> text, plugin |-> context.current_plugin,
          entrypoint |-> context.role_entrypoint]

\* The plugin determination of _parse_option_like (parse.rs 537-563)
parse_option_like_plugin(text, context, capture) ==
    IF IsSome(capture)
    THEN IF ~is_fqcn(Unwrap(capture).c1)
         THEN [ok |-> FALSE, error |-> NotAFqcn(Unwrap(capture).c1)]
         ELSE IF ~is_plugin_type(Unwrap(capture).c2)
         THEN [ok |-> FALSE, error |-> PluginTypeNotValid(Unwrap(capture).c2)]
         ELSE [ok |-> TRUE, text |-> Slice(text, Unwrap(capture).c3_start, Len(text)),
               plugin |-> Some(PluginIdentifier(Unwrap(capture).c1, Unwrap(capture).c2)),
               entrypoint |-> None]
    ELSE IF StartsWith(text, IGNORE_MARKER)
    THEN [ok |-> TRUE, text |-> Slice(text, Len(IGNORE_MARKER), Len(text)),
          plugin |-> None, entrypoint |-> None]
    ELSE [ok |-> TRUE, text |-> text, plugin |-> context.current_plugin,
          entrypoint |-> context.role_entrypoint]

\* _parse_option_like after the split at '=' (parse.rs 537-594)
parse_option_like_text(text, value, context) ==
    parse_option_like_role(
        parse_option_like_plugin(text, context, fqcn_type_prefix_captures(text)), value)

\* A split that loses the value of the argument
parse_option_like_value_dropped(input, context, eq) ==
    IF IsSome(eq)
    THEN parse_option_like_text(Unwrap(eq)[1], None, context)
    ELSE parse_option_like_text(input, None, context)

\* The split of _parse_option_like at the first '=' (parse.rs 528-536)
parse_option_like_value(input, context, eq) ==
    IF IsSome(eq)
    THEN parse_option_like_text(Unwrap(eq)[1], Some(Unwrap(eq)[2]), context)
    ELSE parse_option_like_text(input, None, context)

parse_option_like(input, context) ==
    parse_option_like_value(input, context, split_once(input, "="))

ModuleNotAFqcn(name) == <<"Module name ">> \o Debug(name) \o <<" is not a FQCN">>

NotFqcnType(value) == <<"Parameter ">> \o Debug(value) \o <<" is not of the form FQCN#type">>

NotImplemented(quoting, command) ==
    <<"Handling ">> \o quoting \o <<" ">> \o Debug(command) \o <<" not yet implemented!">>

\* The "P" arm of to_part after value.split_once("#") (parse.rs 684-703)
to_part_plugin_split(value, hash) ==
    IF hash = None THEN [ok |-> FALSE, error |-> NotFqcnType(value)]
    ELSE IF ~is_fqcn(Unwrap(hash)[1])
    THEN [ok |-> FALSE, error |-> NotAFqcn(Unwrap(hash)[1])]
    ELSE IF ~is_plugin_type(Unwrap(hash)[2])
    THEN [ok |-> FALSE, error |-> NotAFqcn(Unwrap(hash)[2])]
    ELSE [ok |-> TRUE,
          part |-> PartPlugin(PluginIdentifier(Unwrap(hash)[1], Unwrap(hash)[2]))]

\* The "P" arm of to_part (parse.rs 682-704)
to_part_plugin(value) == to_part_plugin_split(value, split_once(value, "#"))

\* The closures of the "O" and "RV" arms of to_part (parse.rs 711-728)
option_like_part(variant, r) ==
    IF ~r.ok THEN r
    ELSE [ok |-> TRUE,
          part |-> IF variant = "OptionName"
                   THEN PartOptionName(r.plugin, r.entrypoint, r.link, r.name, r.value)
                   ELSE PartReturnValue(r.plugin, r.entrypoint, r.link, r.name, r.value)]

\* The "O" and "RV" arms of to_part (parse.rs 711-728)
to_part_option_like(variant, parameter, context) ==
    option_like_part(variant, parse_option_like(parameter, context))

\* The inner match of to_part on command.command: Ok(part) or Err(message)
to_part_command(token, name, parameters, context) ==
    IF token.type = "UnescapedCommand"
    THEN CASE name = <<"B">> -> [ok |-> TRUE, part |-> PartBold(parameters[1])]
           [] name = <<"I">> -> [ok |-> TRUE, part |-> PartItalic(parameters[1])]
           [] name = <<"M">> ->
                IF ~is_fqcn(parameters[1])
                THEN [ok |-> FALSE, error |-> ModuleNotAFqcn(parameters[1])]
                ELSE [ok |-> TRUE, part |-> PartModule(parameters[1])]
           [] name = <<"U">> -> [ok |-> TRUE, part |-> PartURL(parameters[1])]
           [] name = <<"L">> ->
                [ok |-> TRUE, part |-> PartLink(parameters[1], parameters[2])]
           [] name = <<"R">> ->
                [ok |-> TRUE, part |-> PartRSTRef(parameters[1], parameters[2])]
           [] name = <<"C">> -> [ok |-> TRUE, part |-> PartCode(parameters[1])]
           [] name = HL -> [ok |-> TRUE, part |-> PartHorizontalLine]
           [] OTHER -> [ok |-> FALSE, error |-> NotImplemented(<<"unescaped">>, name)]
    ELSE CASE name = <<"P">> -> to_part_plugin(parameters[Len(parameters)])
           [] name = <<"E">> ->
                [ok |-> TRUE, part |-> PartEnvVariable(parameters[Len(parameters)])]
           [] name = <<"V">> ->
                [ok |-> TRUE, part |-> PartOptionValue(parameters[Len(parameters)])]
           [] name \in {<<"O">>, <<"R", "V">>} ->
                to_part_option_like(IF name = <<"O">> THEN "OptionName" ELSE "ReturnValue",
                                    parameters[Len(parameters)], context)
           [] OTHER -> [ok |-> FALSE, error |-> NotImplemented(<<"escaped">>, name)]

\* unwrap_or_else(|err| err.to_part(parser)): a conversion error becomes an
\* Error part (ToPartError::to_part, parse.rs 604-615)
to_part_unwrap(self, token, r) ==
    IF r.ok THEN r.part
    ELSE PartError(compose_parsing_error(self, token.command, token.start, token.end,
                                         r.error))

\* to_part(token, context, parser).unwrap_or_else(|err| err.to_part(parser))
to_part(self, token, context) ==
    IF token.type = "Text" THEN PartText(token.text)
    ELSE IF token.type = "Error" THEN PartError(token.message)
    ELSE to_part_unwrap(self, token,
             to_part_command(token, token.command.command, token.parameters, context))

PartWithSource(part, source) == [part |-> part, source |-> source]

\* ------------------------------------------------------------------------
\* Options and entry points (parse.rs 790-905)
\* ------------------------------------------------------------------------

ParseOptions(only_classic_markup, strict, helpful_errors, where) ==
    [only_classic_markup |-> only_classic_markup, strict |-> strict,
     helpful_errors |-> helpful_errors, where |-> where]

\* create_parser that always takes the full parser
create_parser_full(input, opts) ==
    StringParser_new(input, "FULL_PARSER", opts.strict, opts.helpful_errors, opts.where)

create_parser(input, opts) ==
    StringParser_new(input,
                     IF opts.only_classic_markup THEN "CLASSIC_MARKUP_PARSER"
                     ELSE "FULL_PARSER",
                     opts.strict, opts.helpful_errors, opts.where)

\* The part pushed by do_parse_with_source for a token
do_parse_with_source_push(parser, token, context, result) ==
    Append(result, PartWithSource(to_part(parser, token, context), get_source(token)))

\* do_parse_with_source: the loop over StringParser::next
RECURSIVE do_parse_with_source(_, _, _)
do_parse_with_source(parser, context, result) ==
    IF parser.tokens # <<>>
    THEN do_parse_with_source([parser EXCEPT !.tokens = Tail(@)], context,
             do_parse_with_source_push([parser EXCEPT !.tokens = Tail(@)],
                                       Head(parser.tokens), context, result))
    ELSE IF parser.position = parser.length THEN result
    ELSE do_parse_with_source(prepare_tokens(parser), context, result)

\* do_parse_without_source that skips the Error tokens
RECURSIVE do_parse_without_source_skipping_errors(_, _, _)
do_parse_without_source_skipping_errors(parser, context, result) ==
    IF parser.tokens # <<>>
    THEN do_parse_without_source_skipping_errors(
             [parser EXCEPT !.tokens = Tail(@)], context,
             IF Head(parser.tokens).type = "Error" THEN result
             ELSE Append(result, to_part([parser EXCEPT !.tokens = Tail(@)],
                                         Head(parser.tokens), context)))
    ELSE IF parser.position = parser.length THEN result
    ELSE do_parse_without_source_skipping_errors(prepare_tokens(parser), context,
                                                 result)

\* do_parse_without_source: the loop over StringParser::next
RECURSIVE do_parse_without_source(_, _, _)
do_parse_without_source(parser, context, result) ==
    IF parser.tokens # <<>>
    THEN do_parse_without_source([parser EXCEPT !.tokens = Tail(@)], context,
             Append(result, to_part([parser EXCEPT !.tokens = Tail(@)],
                                    Head(parser.tokens), context)))
    ELSE IF parser.position = parser.length THEN result
    ELSE do_parse_without_source(prepare_tokens(parser), context, result)

\* add_paragraph_to_where with the prefix put after the caller's where
add_paragraph_to_where_after(self, index) ==
    ParseOptions(self.only_classic_markup, self.strict, self.helpful_errors,
                 Some((IF IsSome(self.where) THEN Unwrap(self.where) ELSE <<>>)
                      \o <<" of paragraph ">> \o Display(index)))

\* ParseOptions::add_paragraph_to_where
add_paragraph_to_where(self, index) ==
    ParseOptions(self.only_classic_markup, self.strict, self.helpful_errors,
                 Some(<<" of paragraph ">> \o Display(index)
                      \o (IF IsSome(self.where) THEN Unwrap(self.where) ELSE <<>>)))

parse(input, context, opts) ==
    do_parse_with_source(create_parser(input, opts), context, <<>>)

parse_without_sources(input, context, opts) ==
    do_parse_without_source(create_parser(input, opts), context, <<>>)

\* parse_paragraphs: index counts the paragraphs from 0
parse_paragraphs(input, context, opts) ==
    [p \in 1..Len(input) |->
         parse(input[p], context, add_paragraph_to_where(opts, (p - 1) + 1))]

parse_paragraphs_without_sources(input, context, opts) ==
    [p \in 1..Len(input) |->
         parse_without_sources(input[p], context,
                               add_paragraph_to_where(opts, (p - 1) + 1))]

\* ------------------------------------------------------------------------
\* Inputs of the model
\* ------------------------------------------------------------------------

\* All sequences of at most n elements of S
RECURSIVE SeqsUpTo(_, _)
SeqsUpTo(S, n) ==
    IF n = 0 THEN {<<>>}
    ELSE LET shorter == SeqsUpTo(S, n - 1)
         IN  shorter \cup {Append(q, x) : q \in {r \in shorter : Len(r) = n - 1}, x \in S}

\* The paragraphs made of at most n fragments of the vocabulary V
Paragraphs(V, n) == {Flatten(fs) : fs \in SeqsUpTo(V, n)}

\* Fragments of the general parser model: text, separators, an escape, a
\* newline, and command prefixes of each quoting discipline and arity.
Fragments ==
    {<<"a">>, <<" ">>, <<",">>, <<")">>, <<"\\">>, <<"\n">>,
     <<"B", "(">>, <<"L", "(">>, <<"V", "(">>, HL}

WhereValues == {None, Some(<<" in x">>)}

AllOptions ==
    {ParseOptions(c, s, h, w) : c \in BOOLEAN, s \in BOOLEAN, h \in BOOLEAN,
                                w \in WhereValues}

NoContext == Context(None, None)

\* Fragments of the model of the unescaped argument collector
UnescapedFragments == {<<"L", "(">>, <<"B", "(">>, <<"a">>, <<" ">>, <<",">>, <<")">>}

\* Fragments of the model of the escaped argument collector
EscapedFragments == {<<"V", "(">>, <<"a">>, <<")">>, <<"\\">>, <<"\n">>}

\* Fragments of the model of the two command sets: every command prefix
CommandFragments ==
    {ALL_COMMANDS[k].command_match : k \in 1..Len(ALL_COMMANDS)}
    \cup {<<"a">>, <<",">>, <<")">>}

DefaultOptions == ParseOptions(FALSE, FALSE, TRUE, None)

StrictOptions == {ParseOptions(FALSE, s, TRUE, None) : s \in BOOLEAN}

ClassicOptions == {ParseOptions(c, FALSE, TRUE, None) : c \in BOOLEAN}

\* The O and RV commands whose argument is a paragraph over V
OptionLikeCommands(V, n) ==
    {prefix \o argument \o <<")">> :
        prefix \in {OPTION_NAME.command_match, RETURN_VALUE.command_match},
        argument \in Paragraphs(V, n)}

\* The M, P and O commands whose argument is a paragraph over V
PluginCommands(V, n) ==
    {prefix \o argument \o <<")">> :
        prefix \in {MODULE_CMD.command_match, PLUGIN.command_match,
                    OPTION_NAME.command_match},
        argument \in Paragraphs(V, n)}

\* Fragments of plugin names and types
FqcnFragments ==
    {<<"a", ".", "a", ".">>, <<"a">>, <<".">>, <<"A">>, <<"1">>, <<"#">>,
     <<"#", "a", ":">>}

\* Fragments of option names with qualifiers
QualFragments ==
    {<<"a">>, <<":">>, IGNORE_MARKER,
     <<"a", ".", "b", ".", "c", "#">> \o ROLE \o <<":">>,
     <<"a", ".", "b", ".", "c", "#", "t", ":">>}

\* The contexts of the parse of a qualified option name
QualContexts ==
    {NoContext,
     Context(Some(PluginIdentifier(<<"x", ".", "y", ".", "z">>, <<"t">>)), Some(<<"m">>)),
     Context(Some(PluginIdentifier(<<"x", ".", "y", ".", "z">>, ROLE)), None),
     Context(Some(PluginIdentifier(<<"x", ".", "y", ".", "z">>, ROLE)), Some(<<"m">>))}

\* Fragments of option names with array stubs and a value
NameFragments == {<<"a">>, <<".">>, <<"[">>, <<"]">>, <<"=">>}

\* The longest argument of an option with a value, in fragments
MaxValueFrags == 4

\* Fragments of option names with a value that holds '=', ':' and '#'
ValueFragments ==
    {<<"a">>, <<"=">>, <<":">>, <<"a", ".", "b", ".", "c", "#", "t", ":">>, <<"\\">>}

\* The longest argument of an option with an invalid name, in fragments
MaxInvalidFrags == 4

\* Fragments of option names with ':' and '#' and a role as qualifier
InvalidFragments ==
    {<<"a">>, <<":">>, <<"#">>, <<"a", ".", "b", ".", "c", "#">> \o ROLE \o <<":">>}

\* The contexts of the parse of an option with an invalid name
InvalidContexts ==
    {NoContext,
     Context(Some(PluginIdentifier(<<"x", ".", "y", ".", "z">>, ROLE)), None)}

\* The contexts of the parse of an option with a value
ValueContexts ==
    {NoContext,
     Context(Some(PluginIdentifier(<<"x", ".", "y", ".", "z">>, ROLE)), Some(<<"m">>))}

\* ------------------------------------------------------------------------
\* Escapers (html_helper.rs, rst_helper.rs, md_helper.rs)
\* ------------------------------------------------------------------------

\* The character U+0060, which no TLA+ string can hold
GRAVE == "grave accent"

\* The printable ASCII characters, from the byte 32 on
AsciiChars ==
    <<" ", "!", "\"", "#", "$", "%", "&", "'", "(", ")", "*", "+", ",", "-", ".", "/",
      "0", "1", "2", "3", "4", "5", "6", "7", "8", "9", ":", ";", "<", "=", ">", "?",
      "@", "A", "B", "C", "D", "E", "F", "G", "H", "I", "J", "K", "L", "M", "N", "O",
      "P", "Q", "R", "S", "T", "U", "V", "W", "X", "Y", "Z", "[", "\\", "]", "^", "_",
      GRAVE, "a", "b", "c", "d", "e", "f", "g", "h", "i", "j", "k", "l", "m", "n", "o",
      "p", "q", "r", "s", "t", "u", "v", "w", "x", "y", "z", "{", "|", "}", "~">>

\* The byte of an ASCII character (b'c') and the bytes of an ASCII string
Byte(c) == 31 + (CHOOSE i \in 1..Len(AsciiChars) : AsciiChars[i] = c)

Bytes(s) == [i \in 1..Len(s) |-> Byte(s[i])]

ByteRange(a, b) == Byte(a)..Byte(b)

\* Cow<str>: the borrowed input or an owned String
Borrowed(s) == [cow |-> "Borrowed", str |-> s]

Owned(s) == [cow |-> "Owned", str |-> s]

is_url_safe(c) ==
    \/ c \in ByteRange("A", "Z") \cup ByteRange("a", "z") \cup ByteRange("0", "9")
    \/ c \in {Byte("-"), Byte("_"), Byte("."), Byte("!"), Byte("~"), Byte("*"),
              Byte("'"), Byte("("), Byte(")"), Byte(";"), Byte("/"), Byte("?"),
              Byte(":"), Byte("@"), Byte("&"), Byte("="), Byte("+"), Byte("$"),
              Byte(","), Byte("#")}

\* is_html_safe with the percent sign among the unsafe bytes
is_html_safe_without_percent(c) ==
    c \notin {Byte("<"), Byte(">"), Byte("&"), Byte("%")}

is_html_safe(c) == c \notin {Byte("<"), Byte(">"), Byte("&")}

\* hex_digit with the digits in lower case
hex_digit_lower(value) ==
    IF value \in 0..9 THEN Byte("0") + value
    ELSE IF value \in 10..15 THEN Byte("a") + value - 10
    ELSE 0

hex_digit(value) ==
    IF value \in 0..9 THEN Byte("0") + value
    ELSE IF value \in 10..15 THEN Byte("A") + value - 10
    ELSE 0

\* &[b'%', hex_digit(c >> 4), hex_digit(c & 15)]
percent_encoded(c) == <<Byte("%"), hex_digit(c \div 16), hex_digit(c % 16)>>

\* if index < next_index { result.push_str(&text[index..next_index]); }
push_safe_bytes(text, index, next_index, result) ==
    IF index < next_index THEN result \o Slice(text, index, next_index) ELSE result

\* The while loop of URLEscaper::escape
RECURSIVE url_safe_end(_, _)
url_safe_end(url, next_index) ==
    IF next_index < Len(url) /\ is_url_safe(At(url, next_index))
    THEN url_safe_end(url, next_index + 1)
    ELSE next_index

\* URLEscaper::escape, from an iteration of its loop on
RECURSIVE url_escape_loop(_, _, _)
url_escape_found(url, index, next_index, result) ==
    IF index = 0 /\ next_index = Len(url) THEN Borrowed(url)
    ELSE IF next_index = Len(url)
    THEN Owned(push_safe_bytes(url, index, next_index, result))
    ELSE url_escape_loop(url, next_index + 1,
                         push_safe_bytes(url, index, next_index, result)
                         \o percent_encoded(At(url, next_index)))

url_escape_loop(url, index, result) ==
    url_escape_found(url, index, url_safe_end(url, index), result)

\* URLEscaper::escape
url_escape(url) == url_escape_loop(url, 0, <<>>)

\* The while loop of URLEscaper::escape_with_html_escape
RECURSIVE url_html_safe_end(_, _)
url_html_safe_end(url, next_index) ==
    IF /\ next_index < Len(url)
       /\ is_url_safe(At(url, next_index))
       /\ is_html_safe(At(url, next_index))
    THEN url_html_safe_end(url, next_index + 1)
    ELSE next_index

\* The replacement of a byte by escape_with_html_escape
url_html_replacement(c) ==
    IF c = Byte("&") THEN Bytes(<<"&", "a", "m", "p", ";">>) ELSE percent_encoded(c)

\* URLEscaper::escape_with_html_escape, from an iteration of its loop on
RECURSIVE url_html_escape_loop(_, _, _)
url_html_escape_found(url, index, next_index, result) ==
    IF index = 0 /\ next_index = Len(url) THEN Borrowed(url)
    ELSE IF next_index = Len(url)
    THEN Owned(push_safe_bytes(url, index, next_index, result))
    ELSE url_html_escape_loop(url, next_index + 1,
                              push_safe_bytes(url, index, next_index, result)
                              \o url_html_replacement(At(url, next_index)))

url_html_escape_loop(url, index, result) ==
    url_html_escape_found(url, index, url_html_safe_end(url, index), result)

\* URLEscaper::escape_with_html_escape
escape_with_html_escape(url) == url_html_escape_loop(url, 0, <<>>)

\* The while loop of HTMLEscaper::escape
RECURSIVE html_safe_end(_, _)
html_safe_end(url, next_index) ==
    IF next_index < Len(url) /\ is_html_safe(At(url, next_index))
    THEN html_safe_end(url, next_index + 1)
    ELSE next_index

\* The match of HTMLEscaper::escape
html_replacement(c) ==
    CASE c = Byte("<") -> Bytes(<<"&", "l", "t", ";">>)
      [] c = Byte(">") -> Bytes(<<"&", "g", "t", ";">>)
      [] c = Byte("&") -> Bytes(<<"&", "a", "m", "p", ";">>)
      [] OTHER -> <<>>

\* HTMLEscaper::escape, from an iteration of its loop on
RECURSIVE html_escape_loop(_, _, _)
html_escape_found(url, index, next_index, result) ==
    IF index = 0 /\ next_index = Len(url) THEN Borrowed(url)
    ELSE IF next_index = Len(url)
    THEN Owned(push_safe_bytes(url, index, next_index, result))
    ELSE html_escape_loop(url, next_index + 1,
                          push_safe_bytes(url, index, next_index, result)
                          \o html_replacement(At(url, next_index)))

html_escape_loop(url, index, result) ==
    html_escape_found(url, index, html_safe_end(url, index), result)

\* HTMLEscaper::escape
html_escape(url) == html_escape_loop(url, 0, <<>>)

\* The class of md_escape_re
md_escape_re_matches(c) ==
    c \in {Byte("!"), Byte("\""), Byte("#"), Byte("$"), Byte("%"), Byte("&"),
           Byte("'"), Byte("("), Byte(")"), Byte("*"), Byte("+"), Byte(","),
           Byte(":"), Byte(";"), Byte("<"), Byte("="), Byte(">"), Byte("?"),
           Byte("@"), Byte("["), Byte("\\"), Byte("]"), Byte("^"), Byte("_"),
           Byte(GRAVE), Byte("{"), Byte("|"), Byte("}"), Byte("~"), Byte("."),
           Byte("-")}

\* Regex::replace_all(text, "\\$1") from the byte offset i on
RECURSIVE md_replace_all_from(_, _)
md_replace_all_from(text, i) ==
    IF i >= Len(text) THEN <<>>
    ELSE (IF md_escape_re_matches(At(text, i)) THEN <<Byte("\\"), At(text, i)>>
          ELSE <<At(text, i)>>)
         \o md_replace_all_from(text, i + 1)

\* MDEscaper::escape: replace_all borrows the text when nothing matches
md_escape(text) ==
    IF \E i \in 0..(Len(text) - 1) : md_escape_re_matches(At(text, i))
    THEN Owned(md_replace_all_from(text, 0))
    ELSE Borrowed(text)

is_rst_safe(c) ==
    c \notin {Byte("\\"), Byte("<"), Byte(">"), Byte("_"), Byte("*"), Byte(GRAVE)}

ends_with_space(text) == Len(text) > 0 /\ At(text, Len(text) - 1) = Byte(" ")

\* The state of RSTEscaper::escape before its loop: result and can_borrow
rst_escape_start_unprefixed(text, escape_ending_whitespace) ==
    [result |-> <<>>,
     can_borrow |-> ~(escape_ending_whitespace /\ ends_with_space(text))]

rst_escape_start(text, escape_ending_whitespace) ==
    IF escape_ending_whitespace /\ At(text, 0) = Byte(" ")
    THEN [result |-> Bytes(<<"\\", " ">>), can_borrow |-> FALSE]
    ELSE IF escape_ending_whitespace /\ ends_with_space(text)
    THEN [result |-> <<>>, can_borrow |-> FALSE]
    ELSE [result |-> <<>>, can_borrow |-> TRUE]

\* The while loop of RSTEscaper::escape
RECURSIVE rst_safe_end(_, _)
rst_safe_end(text, next_index) ==
    IF next_index < Len(text) /\ is_rst_safe(At(text, next_index))
    THEN rst_safe_end(text, next_index + 1)
    ELSE next_index

\* The end of RSTEscaper::escape, when next_index == length
rst_escape_end(text, index, result, escape_ending_whitespace) ==
    IF escape_ending_whitespace /\ index < Len(text) /\ ends_with_space(text)
    THEN Owned(result \o Bytes(<<"\\", " ">>))
    ELSE Owned(result)

\* RSTEscaper::escape, from an iteration of its loop on
RECURSIVE rst_escape_loop(_, _, _, _, _)
rst_escape_found(text, index, next_index, result, can_borrow, escape_ending_whitespace) ==
    IF index = 0 /\ can_borrow /\ next_index = Len(text) THEN Borrowed(text)
    ELSE IF next_index = Len(text)
    THEN rst_escape_end(text, index, push_safe_bytes(text, index, next_index, result),
                        escape_ending_whitespace)
    ELSE rst_escape_loop(text, next_index + 1,
                         push_safe_bytes(text, index, next_index, result)
                         \o <<Byte("\\")>> \o Slice(text, next_index, next_index + 1),
                         can_borrow, escape_ending_whitespace)

rst_escape_loop(text, index, result, can_borrow, escape_ending_whitespace) ==
    rst_escape_found(text, index, rst_safe_end(text, index), result, can_borrow,
                     escape_ending_whitespace)

rst_escape_nonempty(text, start, escape_ending_whitespace) ==
    rst_escape_loop(text, 0, start.result, start.can_borrow, escape_ending_whitespace)

\* RSTEscaper::escape
rst_escape(text, escape_ending_whitespace, must_not_be_empty) ==
    IF Len(text) = 0
    THEN (IF must_not_be_empty THEN Owned(Bytes(<<"\\", " ">>)) ELSE Borrowed(text))
    ELSE rst_escape_nonempty(text, rst_escape_start(text, escape_ending_whitespace),
                             escape_ending_whitespace)

\* ------------------------------------------------------------------------
\* Rendering of a paragraph (format.rs and the paragraph functions of the
\* backends)
\* ------------------------------------------------------------------------

\* What the Appender received: the strings pushed by append_paragraph, and
\* the calls of Formatter::append with the part and URL they were given.
PushedStr(text) == [kind |-> "push_str", text |-> text, formatter |-> "",
                    part |-> None, url |-> None]

FormatterAppend(formatter, part, url) ==
    [kind |-> "append", text |-> <<>>, formatter |-> formatter,
     part |-> Some(part), url |-> url]

push_str(appender, text) == Append(appender, PushedStr(text))

\* Formatter::append of the formatter of a backend
formatter_append(formatter, appender, part, url) ==
    Append(appender, FormatterAppend(formatter, part, url))

MODULE_TYPE == <<"m", "o", "d", "u", "l", "e">>

push_owned_string(appender, value) == push_str(appender, value)

push_cow_str(appender, value) == push_str(appender, value.str)

\* AntsibullHTMLFormatter::append_fqcn, on UTF-8 bytes
append_fqcn(appender, fqcn, url) ==
    IF IsSome(url)
    THEN push_str(
             push_cow_str(
                 push_str(
                     push_owned_string(
                         push_str(appender,
                                  Bytes(<<"<", "a", " ", "h", "r", "e", "f", "=", "'">>)),
                         escape_with_html_escape(Unwrap(url)).str),
                     Bytes(<<"'", " ", "c", "l", "a", "s", "s", "=", "'", "m", "o", "d",
                             "u", "l", "e", "'", ">">>)),
                 html_escape(fqcn)),
             Bytes(<<"<", "/", "a", ">">>))
    ELSE push_str(
             push_cow_str(
                 push_str(appender,
                          Bytes(<<"<", "s", "p", "a", "n", " ", "c", "l", "a", "s", "s",
                                  "=", "'", "m", "o", "d", "u", "l", "e", "'", ">">>)),
                 html_escape(fqcn)),
             Bytes(<<"<", "/", "s", "p", "a", "n", ">">>))

\* The arms of AntsibullHTMLFormatter::append for a Module and a Plugin part
antsibull_html_append(appender, part, url) ==
    CASE part.variant = "Module" -> append_fqcn(appender, part.fqcn, url)
      [] part.variant = "Plugin" -> append_fqcn(appender, part.plugin.fqcn, url)

\* The calls a LinkProvider received
PluginLinkCall(plugin) ==
    [fn |-> "plugin_link", plugin |-> plugin, entrypoint |-> None, what |-> "",
     name |-> <<>>, current_plugin |-> FALSE]

PluginOptionLikeLinkCall(plugin, entrypoint, what, name, current_plugin) ==
    [fn |-> "plugin_option_like_link", plugin |-> plugin, entrypoint |-> entrypoint,
     what |-> what, name |-> name, current_plugin |-> current_plugin]

\* LinkProvider::plugin_link: NoLinkProvider has no links, the other
\* provider links every plugin.
plugin_link(link_provider, plugin) ==
    IF link_provider = "NoLinkProvider" THEN None
    ELSE Some(<<"/">> \o plugin.fqcn)

\* LinkProvider::plugin_option_like_link
plugin_option_like_link(link_provider, plugin, entrypoint, what, name, current_plugin) ==
    IF link_provider = "NoLinkProvider" THEN None
    ELSE Some((IF current_plugin THEN <<>> ELSE <<"/">> \o plugin.fqcn)
              \o <<"#">> \o name[1])

\* A comparison of the names of the plugins only
is_current_plugin_by_fqcn(plugin, current_plugin) ==
    IF IsSome(current_plugin) THEN plugin.fqcn = Unwrap(current_plugin).fqcn ELSE FALSE

\* The comparison *rcp == *cp of append_paragraph
is_current_plugin(plugin, current_plugin) ==
    IF IsSome(current_plugin) THEN plugin = Unwrap(current_plugin) ELSE FALSE

\* The url and the link-provider call of an option-like part with a plugin
option_like_url(link_provider, plugin, entrypoint, what, link, current) ==
    [url |-> plugin_option_like_link(link_provider, plugin, entrypoint, what, link,
                                     current),
     calls |-> <<PluginOptionLikeLinkCall(plugin, entrypoint, what, link, current)>>]

\* The match of append_paragraph that computes the url of a part
part_url(part, link_provider, current_plugin) ==
    CASE part.variant = "Module" ->
             [url |-> plugin_link(link_provider, PluginIdentifier(part.fqcn, MODULE_TYPE)),
              calls |-> <<PluginLinkCall(PluginIdentifier(part.fqcn, MODULE_TYPE))>>]
      [] part.variant = "Plugin" ->
             [url |-> plugin_link(link_provider, part.plugin),
              calls |-> <<PluginLinkCall(part.plugin)>>]
      [] part.variant \in {"OptionName", "ReturnValue"} ->
             IF IsSome(part.plugin)
             THEN option_like_url(link_provider, Unwrap(part.plugin), part.entrypoint,
                                  IF part.variant = "OptionName" THEN "Option"
                                  ELSE "RetVal",
                                  part.link,
                                  is_current_plugin(Unwrap(part.plugin), current_plugin))
             ELSE [url |-> None, calls |-> <<>>]
      [] OTHER -> [url |-> None, calls |-> <<>>]

\* One iteration of the loop of append_paragraph, given the url of the part
append_part(r, part, formatter, u) ==
    [appender |-> formatter_append(formatter, r.appender, part, u.url),
     calls |-> r.calls \o u.calls,
     first |-> FALSE]

RECURSIVE append_paragraph_loop(_, _, _, _, _, _)
append_paragraph_loop(r, paragraph, i, formatter, link_provider, current_plugin) ==
    IF i > Len(paragraph) THEN r
    ELSE append_paragraph_loop(
             append_part(r, paragraph[i], formatter,
                         part_url(paragraph[i], link_provider, current_plugin)),
             paragraph, i + 1, formatter, link_provider, current_plugin)

\* The end of append_paragraph that pushes par_empty after any paragraph
append_paragraph_end_with_empty(r, par_end, par_empty) ==
    [appender |-> push_str(push_str(r.appender, par_empty), par_end),
     calls |-> r.calls]

\* The end of append_paragraph, after the loop
append_paragraph_end(r, par_end, par_empty) ==
    [appender |-> push_str(IF r.first THEN push_str(r.appender, par_empty)
                           ELSE r.appender,
                           par_end),
     calls |-> r.calls]

append_paragraph(appender, paragraph, formatter, link_provider, par_start, par_end, par_empty, current_plugin) ==
    append_paragraph_end(
        append_paragraph_loop(
            [appender |-> push_str(appender, par_start), calls |-> <<>>, first |-> TRUE],
            paragraph, 1, formatter, link_provider, current_plugin),
        par_end, par_empty)

append_ansible_doc_text_paragraph(appender, paragraph, link_provider, current_plugin) ==
    append_paragraph(appender, paragraph, "ANSIBLE_DOC_TEXT_FORMATTER", link_provider,
                     <<>>, <<>>, <<>>, current_plugin)

append_antsibull_html_paragraph(appender, paragraph, link_provider, current_plugin) ==
    append_paragraph(appender, paragraph, "ANTSIBULL_HTML_FORMATTER", link_provider,
                     <<"<", "p", ">">>, <<"<", "/", "p", ">">>, <<>>, current_plugin)

append_plain_html_paragraph(appender, paragraph, link_provider, current_plugin) ==
    append_paragraph(appender, paragraph, "PLAIN_HTML_FORMATTER", link_provider,
                     <<"<", "p", ">">>, <<"<", "/", "p", ">">>, <<>>, current_plugin)

append_md_paragraph(appender, paragraph, link_provider, current_plugin) ==
    append_paragraph(appender, paragraph, "MARKDOWN_FORMATTER", link_provider,
                     <<>>, <<>>, <<"\n", "\n">>, current_plugin)

append_antsibull_rst_paragraph(appender, paragraph, link_provider, current_plugin) ==
    append_paragraph(appender, paragraph, "ANTSIBULL_RST_FORMATTER", link_provider,
                     <<>>, <<>>, <<"\\", " ">>, current_plugin)

append_plain_rst_paragraph(appender, paragraph, link_provider, current_plugin) ==
    append_paragraph(appender, paragraph, "PLAIN_RST_FORMATTER", link_provider,
                     <<>>, <<>>, <<"\\", " ">>, current_plugin)

Backends == {"ansible_doc_text", "html_antsibull", "html_plain", "md",
             "rst_antsibull", "rst_plain"}

\* The single-paragraph function of a backend
append_backend_paragraph(backend, appender, paragraph, link_provider, current_plugin) ==
    CASE backend = "ansible_doc_text" ->
             append_ansible_doc_text_paragraph(appender, paragraph, link_provider,
                                               current_plugin)
      [] backend = "html_antsibull" ->
             append_antsibull_html_paragraph(appender, paragraph, link_provider,
                                             current_plugin)
      [] backend = "html_plain" ->
             append_plain_html_paragraph(appender, paragraph, link_provider,
                                         current_plugin)
      [] backend = "md" ->
             append_md_paragraph(appender, paragraph, link_provider, current_plugin)
      [] backend = "rst_antsibull" ->
             append_antsibull_rst_paragraph(appender, paragraph, link_provider,
                                            current_plugin)
      [] backend = "rst_plain" ->
             append_plain_rst_paragraph(appender, paragraph, link_provider,
                                        current_plugin)

\* The separator pushed before every paragraph, the first one included
append_paragraphs_sep_always(r, par_sep) == push_str(r.appender, par_sep)

\* The test of `first` in the loop of append_paragraphs
append_paragraphs_sep(r, par_sep) ==
    IF r.first THEN r.appender ELSE push_str(r.appender, par_sep)

\* The state of append_paragraphs after the call of append_paragraph
append_paragraphs_next(r, p) ==
    [appender |-> p.appender, calls |-> r.calls \o p.calls, first |-> FALSE]

RECURSIVE append_paragraphs_loop(_, _, _, _, _, _, _, _, _, _)
append_paragraphs_loop(r, paragraphs, i, formatter, link_provider, par_start, par_end, par_sep, par_empty, current_plugin) ==
    IF i > Len(paragraphs) THEN r
    ELSE append_paragraphs_loop(
             append_paragraphs_next(
                 r,
                 append_paragraph(append_paragraphs_sep(r, par_sep), paragraphs[i],
                                  formatter, link_provider, par_start, par_end,
                                  par_empty, current_plugin)),
             paragraphs, i + 1, formatter, link_provider, par_start, par_end,
             par_sep, par_empty, current_plugin)

append_paragraphs(appender, paragraphs, formatter, link_provider, par_start, par_end, par_sep, par_empty, current_plugin) ==
    append_paragraphs_loop([appender |-> appender, calls |-> <<>>, first |-> TRUE],
                           paragraphs, 1, formatter, link_provider, par_start,
                           par_end, par_sep, par_empty, current_plugin)

append_ansible_doc_text_paragraphs(appender, paragraphs, link_provider, current_plugin) ==
    append_paragraphs(appender, paragraphs, "ANSIBLE_DOC_TEXT_FORMATTER", link_provider,
                      <<>>, <<>>, <<"\n", "\n">>, <<>>, current_plugin)

append_antsibull_html_paragraphs(appender, paragraphs, link_provider, current_plugin) ==
    append_paragraphs(appender, paragraphs, "ANTSIBULL_HTML_FORMATTER", link_provider,
                      <<"<", "p", ">">>, <<"<", "/", "p", ">">>, <<>>, <<>>, current_plugin)

append_plain_html_paragraphs(appender, paragraphs, link_provider, current_plugin) ==
    append_paragraphs(appender, paragraphs, "PLAIN_HTML_FORMATTER", link_provider,
                      <<"<", "p", ">">>, <<"<", "/", "p", ">">>, <<>>, <<>>, current_plugin)

append_md_paragraphs(appender, paragraphs, link_provider, current_plugin) ==
    append_paragraphs(appender, paragraphs, "MARKDOWN_FORMATTER", link_provider,
                      <<>>, <<>>, <<"\n", "\n">>, <<" ">>, current_plugin)

append_antsibull_rst_paragraphs(appender, paragraphs, link_provider, current_plugin) ==
    append_paragraphs(appender, paragraphs, "ANTSIBULL_RST_FORMATTER", link_provider,
                      <<>>, <<>>, <<"\n", "\n">>, <<"\\", " ">>, current_plugin)

append_plain_rst_paragraphs(appender, paragraphs, link_provider, current_plugin) ==
    append_paragraphs(appender, paragraphs, "PLAIN_RST_FORMATTER", link_provider,
                      <<>>, <<>>, <<"\n", "\n">>, <<"\\", " ">>, current_plugin)

\* The multi-paragraph function of a backend
append_backend_paragraphs(backend, appender, paragraphs, link_provider, current_plugin) ==
    CASE backend = "ansible_doc_text" ->
             append_ansible_doc_text_paragraphs(appender, paragraphs, link_provider,
                                                current_plugin)
      [] backend = "html_antsibull" ->
             append_antsibull_html_paragraphs(appender, paragraphs, link_provider,
                                              current_plugin)
      [] backend = "html_plain" ->
             append_plain_html_paragraphs(appender, paragraphs, link_provider,
                                          current_plugin)
      [] backend = "md" ->
             append_md_paragraphs(appender, paragraphs, link_provider, current_plugin)
      [] backend = "rst_antsibull" ->
             append_antsibull_rst_paragraphs(appender, paragraphs, link_provider,
                                             current_plugin)
      [] backend = "rst_plain" ->
             append_plain_rst_paragraphs(appender, paragraphs, link_provider,
                                         current_plugin)

LinkProviders == {"NoLinkProvider", "LinkEverything"}

ABC == <<"a", ".", "b", ".", "c">>

\* Fragments of the paragraphs that are rendered
RenderFragments == {<<"a">>, <<"M", "(">>, <<"O", "(">>, ABC, <<")">>}

CurrentPlugins == {None, Some(PluginIdentifier(ABC, MODULE_TYPE))}

RenderContexts == {Context(cp, None) : cp \in CurrentPlugins}

\* The texts and commands of the paragraphs whose links are computed
LinkFragments ==
    {<<"a">>,
     <<"B", "(", "a", ")">>,
     <<"M", "(">> \o ABC \o <<")">>,
     <<"P", "(">> \o ABC \o <<"#", "t", ")">>,
     <<"O", "(", "a", ")">>,
     <<"R", "V", "(", "a", ")">>,
     <<"O", "(">> \o ABC \o <<"#", "t", ":", "a", ")">>}

\* The current_plugin arguments of the paragraph function: none, the plugin
\* of the context, and a plugin of the same name and another type
LinkCurrentPlugins ==
    CurrentPlugins \cup {Some(PluginIdentifier(ABC, <<"t">>))}

\* ------------------------------------------------------------------------
\* State
\* ------------------------------------------------------------------------

VARIABLES
    opts,           \* the ParseOptions passed to parse
    context,        \* the Context passed to parse
    string_parser,  \* the StringParser of parse: input, cursor and token queue
    result,         \* the Vec<PartWithSource> built by do_parse_with_source
    pc,             \* "next" inside the loop of do_parse_with_source, then "done",
                    \* "rendered" after the paragraph function of the backend,
                    \* "between" two calls of parse, and "rendered_all" after
                    \* the multi-paragraph function of the backend
    paragraphs,     \* the paragraphs parsed for the multi-paragraph function
    arguments,      \* the arguments of the call of a helper function, if any
    returned,       \* what the helper function returned, if it did
    backend,        \* the backend whose paragraph function renders the result
    link_provider,  \* the LinkProvider passed to the paragraph function
    current_plugin, \* the current_plugin passed to the paragraph function
    appender,       \* what the Appender received
    provider_calls  \* the calls the LinkProvider received

helperVars == <<arguments, returned>>

renderVars == <<backend, link_provider, current_plugin, appender, provider_calls,
                paragraphs, arguments, returned>>

vars == <<opts, context, string_parser, result, pc, backend, link_provider,
          current_plugin, appender, provider_calls, paragraphs, arguments, returned>>

\* The arguments of the paragraph function and an empty Appender
InitRender(backends, providers, plugins) ==
    /\ backend \in backends
    /\ link_provider \in providers
    /\ current_plugin \in plugins
    /\ appender = <<>>
    /\ provider_calls = <<>>
    /\ paragraphs = <<>>
    /\ arguments = None
    /\ returned = None

\* parse(input, context, opts) after create_parser, its result to be rendered
InitParseRender(inputs, options, contexts, backends, providers, plugins) ==
    /\ opts \in options
    /\ context \in contexts
    /\ string_parser \in {create_parser(input, opts) : input \in inputs}
    /\ result = <<>>
    /\ pc = "next"
    /\ InitRender(backends, providers, plugins)

\* parse(input, context, opts) after create_parser
InitParse(inputs, options, contexts) ==
    InitParseRender(inputs, options, contexts, {"md"}, {"NoLinkProvider"}, {None})

Init == InitParse(Paragraphs(Fragments, MaxFrags), AllOptions, {NoContext})

\* StringParser::next finds the queue empty before the end of the input
\* and calls prepare_tokens.
PrepareTokens ==
    /\ pc = "next"
    /\ string_parser.tokens = <<>>
    /\ string_parser.position # string_parser.length
    /\ string_parser' = prepare_tokens(string_parser)
    /\ UNCHANGED <<opts, context, result, pc>>
    /\ UNCHANGED renderVars

\* StringParser::next pops a token; do_parse_with_source converts it and
\* pushes the part with its source.
TakeToken ==
    /\ pc = "next"
    /\ string_parser.tokens # <<>>
    /\ LET token == Head(string_parser.tokens)
           self == [string_parser EXCEPT !.tokens = Tail(@)]
       IN  /\ string_parser' = self
           /\ result' = Append(result,
                               PartWithSource(to_part(self, token, context),
                                              get_source(token)))
    /\ UNCHANGED <<opts, context, pc>>
    /\ UNCHANGED renderVars

\* StringParser::next returns Token::End; do_parse_with_source returns.
EndOfInput ==
    /\ pc = "next"
    /\ string_parser.tokens = <<>>
    /\ string_parser.position = string_parser.length
    /\ pc' = "done"
    /\ UNCHANGED <<opts, context, string_parser, result>>
    /\ UNCHANGED renderVars

Next == PrepareTokens \/ TakeToken \/ EndOfInput

Spec == Init /\ [][Next]_vars

\* The parts of the result, as parse_without_sources returns them
Parts(parts_with_source) ==
    [i \in 1..Len(parts_with_source) |-> parts_with_source[i].part]

\* The paragraph function of the backend renders the parts of the result.
AppendParagraph ==
    /\ pc = "done"
    /\ pc' = "rendered"
    /\ appender' = append_backend_paragraph(backend, appender, Parts(result),
                                            link_provider, current_plugin).appender
    /\ provider_calls' = provider_calls
                         \o append_backend_paragraph(backend, appender, Parts(result),
                                                     link_provider, current_plugin).calls
    /\ UNCHANGED <<opts, context, string_parser, result, backend, link_provider,
                   current_plugin, paragraphs>>
    /\ UNCHANGED helperVars

NextRender == PrepareTokens \/ TakeToken \/ EndOfInput \/ AppendParagraph

\* parse of a paragraph followed by the paragraph function of a backend
InitRenderParagraph ==
    InitParseRender(Paragraphs(RenderFragments, MaxRenderFrags), {DefaultOptions},
                    RenderContexts, Backends, LinkProviders, CurrentPlugins)

SpecRender == InitRenderParagraph /\ [][NextRender]_vars

\* parse of a paragraph of commands that name plugins, followed by the
\* paragraph function of a backend
InitLinks ==
    InitParseRender(Paragraphs(LinkFragments, MaxLinkParts), {DefaultOptions},
                    RenderContexts, {"md", "html_plain"}, LinkProviders,
                    LinkCurrentPlugins)

SpecLinks == InitLinks /\ [][NextRender]_vars

\* The largest number of paragraphs passed to a multi-paragraph function
MaxParagraphs == 2

\* The inputs of the paragraphs that are parsed one after the other
ParagraphInputs ==
    {<<>>,
     <<"a">>,
     <<"M", "(">> \o ABC \o <<")">>,
     <<"a", "M", "(">> \o ABC \o <<")">>}

\* The caller parses the input of one more paragraph.
ParseParagraph ==
    /\ pc = "between"
    /\ Len(paragraphs) < MaxParagraphs
    /\ \E input \in ParagraphInputs : string_parser' = create_parser(input, opts)
    /\ result' = <<>>
    /\ pc' = "next"
    /\ UNCHANGED <<opts, context, backend, link_provider, current_plugin, appender,
                   provider_calls, paragraphs>>
    /\ UNCHANGED helperVars

\* The caller keeps the parts of the result as the next paragraph.
CollectParagraph ==
    /\ pc = "done"
    /\ paragraphs' = Append(paragraphs, Parts(result))
    /\ pc' = "between"
    /\ UNCHANGED <<opts, context, string_parser, result, backend, link_provider,
                   current_plugin, appender, provider_calls>>
    /\ UNCHANGED helperVars

\* The multi-paragraph function of the backend renders the paragraphs.
AppendParagraphs ==
    /\ pc = "between"
    /\ pc' = "rendered_all"
    /\ appender' = append_backend_paragraphs(backend, appender, paragraphs,
                                             link_provider, current_plugin).appender
    /\ provider_calls' = provider_calls
                         \o append_backend_paragraphs(backend, appender, paragraphs,
                                                      link_provider,
                                                      current_plugin).calls
    /\ UNCHANGED <<opts, context, string_parser, result, backend, link_provider,
                   current_plugin, paragraphs>>
    /\ UNCHANGED helperVars

NextParagraphs == NextRender \/ ParseParagraph \/ CollectParagraph \/ AppendParagraphs

\* no paragraph parsed yet, the arguments of the paragraph functions chosen
InitParagraphs ==
    /\ opts = DefaultOptions
    /\ context \in RenderContexts
    /\ string_parser = create_parser(<<>>, opts)
    /\ result = <<>>
    /\ pc = "between"
    /\ InitRender(Backends, LinkProviders, CurrentPlugins)

\* parses of some paragraphs, each rendered alone or kept, followed by the
\* multi-paragraph function of a backend
SpecParagraphs == InitParagraphs /\ [][NextParagraphs]_vars

\* The largest number of fragments of a text that is escaped
MaxEscapeFrags == 2

\* Fragments of the texts that are escaped, as UTF-8 bytes: safe bytes,
\* bytes that some escaper rewrites, a word after a space, and the two
\* bytes of U+00E9
EscapeFragments ==
    {Bytes(<<"a">>), Bytes(<<" ">>), Bytes(<<"&">>), Bytes(<<"<">>), Bytes(<<"%">>),
     Bytes(<<"*">>), Bytes(<<"\\">>), Bytes(<<"_">>), Bytes(<<">">>),
     Bytes(<<GRAVE>>), Bytes(<<" ", "a">>), <<195, 169>>}

\* The arguments of a call of an escaper
EscaperCall(escaper, text, escape_ending_whitespace, must_not_be_empty) ==
    [function |-> escaper, text |-> text,
     escape_ending_whitespace |-> escape_ending_whitespace,
     must_not_be_empty |-> must_not_be_empty]

FlaglessEscapers ==
    {"URLEscaper::escape", "URLEscaper::escape_with_html_escape",
     "HTMLEscaper::escape", "MDEscaper::escape"}

EscaperCalls(texts) ==
    {EscaperCall(e, t, FALSE, FALSE) : e \in FlaglessEscapers, t \in texts}
    \cup {EscaperCall("RSTEscaper::escape", t, w, m) :
              t \in texts, w \in BOOLEAN, m \in BOOLEAN}

\* a function is about to be called with the given arguments
InitCall(calls, options, contexts) ==
    /\ opts \in options
    /\ context \in contexts
    /\ string_parser = create_parser(<<>>, opts)
    /\ result = <<>>
    /\ pc = "call"
    /\ backend = "md"
    /\ link_provider = "NoLinkProvider"
    /\ current_plugin = None
    /\ appender = <<>>
    /\ provider_calls = <<>>
    /\ paragraphs = <<>>
    /\ arguments \in {Some(c) : c \in calls}
    /\ returned = None

InitHelper(calls) == InitCall(calls, {DefaultOptions}, {NoContext})

\* The call of the helper function returns.
Returns(function, value) ==
    /\ pc = "call"
    /\ Unwrap(arguments).function = function
    /\ returned' = Some(value)
    /\ pc' = "returned"
    /\ UNCHANGED <<opts, context, string_parser, result, backend, link_provider,
                   current_plugin, appender, provider_calls, paragraphs, arguments>>

URLEscape == Returns("URLEscaper::escape", url_escape(Unwrap(arguments).text))

URLEscapeWithHtmlEscape ==
    Returns("URLEscaper::escape_with_html_escape",
            escape_with_html_escape(Unwrap(arguments).text))

HTMLEscape == Returns("HTMLEscaper::escape", html_escape(Unwrap(arguments).text))

MDEscape == Returns("MDEscaper::escape", md_escape(Unwrap(arguments).text))

RSTEscape ==
    Returns("RSTEscaper::escape",
            rst_escape(Unwrap(arguments).text,
                       Unwrap(arguments).escape_ending_whitespace,
                       Unwrap(arguments).must_not_be_empty))

NextEscapers ==
    URLEscape \/ URLEscapeWithHtmlEscape \/ HTMLEscape \/ MDEscape \/ RSTEscape

\* The largest number of fragments of a FQCN and of a URL that are rendered
MaxHtmlFrags == 2

\* Fragments of the FQCNs and of the URLs, as UTF-8 bytes
HtmlFqcnFragments == {Bytes(<<"a">>), Bytes(<<".">>), Bytes(<<"<">>), Bytes(<<"&">>)}

HtmlUrlFragments == {Bytes(<<"/">>), Bytes(<<"&">>), Bytes(<<" ">>), <<195, 169>>}

\* The arguments of a call of Formatter::append
FormatterCall(part, url) ==
    [function |-> "AntsibullHTMLFormatter::append", part |-> part, url |-> url]

FqcnCalls ==
    {FormatterCall(part, url) :
         part \in {PartModule(f) : f \in Paragraphs(HtmlFqcnFragments, MaxHtmlFrags)}
                  \cup {PartPlugin(PluginIdentifier(f, Bytes(<<"t">>))) :
                            f \in Paragraphs(HtmlFqcnFragments, MaxHtmlFrags)},
         url \in {None} \cup {Some(u) : u \in Paragraphs(HtmlUrlFragments, MaxHtmlFrags)}}

\* AntsibullHTMLFormatter::append is called with a Module or a Plugin part.
AppendFqcn ==
    /\ pc = "call"
    /\ Unwrap(arguments).function = "AntsibullHTMLFormatter::append"
    /\ Unwrap(arguments).part.variant \in {"Module", "Plugin"}
    /\ appender' = antsibull_html_append(appender, Unwrap(arguments).part,
                                         Unwrap(arguments).url)
    /\ pc' = "returned"
    /\ UNCHANGED <<opts, context, string_parser, result, backend, link_provider,
                   current_plugin, provider_calls, paragraphs, arguments, returned>>

NextFqcn == AppendFqcn

\* one call of the antsibull HTML formatter on a Module or Plugin part
SpecFqcn == InitHelper(FqcnCalls) /\ [][NextFqcn]_vars

InitEscapers == InitHelper(EscaperCalls(Paragraphs(EscapeFragments, MaxEscapeFrags)))

\* one call of an escaper on a text
SpecEscapers == InitEscapers /\ [][NextEscapers]_vars

\* The largest number of paragraphs passed to parse_paragraphs
MaxParsedParagraphs == 2

\* The inputs that are parsed as a whole: texts, commands that parse,
\* commands that give an Error part, an option name and an escape
ParsedInputs ==
    {<<>>,
     <<"a">>,
     <<"B", "(", "a", ")">>,
     <<"M", "(">> \o ABC \o <<")">>,
     <<"M", "(", "a", ")">>,
     <<"a", "a", "L", "(", "a", ")", "a">>,
     <<"B", "(", "a">>,
     <<"O", "(", "a", ")">>,
     <<"C", "(", "\\", "a", ")">>}

\* The where of the caller: none, or a suffix of its own
WhereOptions ==
    {ParseOptions(FALSE, s, h, w) :
         s \in BOOLEAN, h \in BOOLEAN, w \in {None, Some(<<" ", "i", "n", " ", "x">>)}}

\* The contexts of the calls: none, and a role without an entrypoint
ParseContexts ==
    {NoContext, Context(Some(PluginIdentifier(<<"x", ".", "y", ".", "z">>, ROLE)), None)}

\* The arguments of a call of a parse function beside context and opts: the
\* paragraphs, a single one for parse and parse_without_sources
ParseCall(function, input) == [function |-> function, input |-> input]

ParseCalls ==
    {ParseCall(f, <<i>>) : f \in {"parse", "parse_without_sources"}, i \in ParsedInputs}
    \cup {ParseCall(f, i) :
              f \in {"parse_paragraphs", "parse_paragraphs_without_sources"},
              i \in SeqsUpTo(ParsedInputs, MaxParsedParagraphs)}

Parse == Returns("parse", parse(Unwrap(arguments).input[1], context, opts))

ParseWithoutSources ==
    Returns("parse_without_sources",
            parse_without_sources(Unwrap(arguments).input[1], context, opts))

ParseParagraphs ==
    Returns("parse_paragraphs",
            parse_paragraphs(Unwrap(arguments).input, context, opts))

ParseParagraphsWithoutSources ==
    Returns("parse_paragraphs_without_sources",
            parse_paragraphs_without_sources(Unwrap(arguments).input, context, opts))

NextParse ==
    Parse \/ ParseWithoutSources \/ ParseParagraphs \/ ParseParagraphsWithoutSources

\* one call of a parse function
SpecParse == InitCall(ParseCalls, WhereOptions, ParseContexts) /\ [][NextParse]_vars

\* parse of paragraphs that exercise the unescaped argument collector
InitUnescaped ==
    InitParse(Paragraphs(UnescapedFragments, MaxArgFrags), {DefaultOptions}, {NoContext})

SpecUnescaped == InitUnescaped /\ [][Next]_vars

\* parse of paragraphs that exercise the escaped argument collector, with
\* and without strict
InitEscaped ==
    InitParse(Paragraphs(EscapedFragments, MaxArgFrags), StrictOptions, {NoContext})

SpecEscaped == InitEscaped /\ [][Next]_vars

\* parse of paragraphs made of the thirteen command prefixes, with and
\* without only_classic_markup
InitCommands ==
    InitParse(Paragraphs(CommandFragments, MaxFrags), ClassicOptions, {NoContext})

SpecCommands == InitCommands /\ [][Next]_vars

\* parse of an O or RV command whose name has dots and array stubs
InitNames ==
    InitParse(OptionLikeCommands(NameFragments, MaxNameFrags), {DefaultOptions},
              {NoContext})

SpecNames == InitNames /\ [][Next]_vars

\* The largest number of fragments after the prefix of a command that may
\* lack its end
MaxOpenFrags == 3

\* Fragments of the arguments of such a command
OpenFragments == {<<"a">>, <<",">>, <<")">>, <<"\\">>, <<" ">>}

\* A command of each collector and arity, alone or after a space, followed
\* by a paragraph over V
OpenCommands(V, n) ==
    {lead \o prefix \o rest :
        lead \in {<<>>, <<" ">>},
        prefix \in {BOLD.command_match, LINK.command_match, OPTION_VALUE.command_match},
        rest \in Paragraphs(V, n)}

\* parse of a command that may lack a comma or its closing parenthesis,
\* with and without strict
InitOpen ==
    InitParse(OpenCommands(OpenFragments, MaxOpenFrags), StrictOptions, {NoContext})

SpecOpen == InitOpen /\ [][Next]_vars

\* parse of an O or RV command with qualifiers, in contexts with and without
\* a current plugin and a role entrypoint
InitQualified ==
    InitParse(OptionLikeCommands(QualFragments, MaxQualFrags), {DefaultOptions},
              QualContexts)

SpecQualified == InitQualified /\ [][Next]_vars

\* parse of an O or RV command whose argument has a value
InitValues ==
    InitParse(OptionLikeCommands(ValueFragments, MaxValueFrags), {DefaultOptions},
              ValueContexts)

SpecValues == InitValues /\ [][Next]_vars

\* parse of an O or RV command whose name has ':' and '#'
InitInvalidNames ==
    InitParse(OptionLikeCommands(InvalidFragments, MaxInvalidFrags), {DefaultOptions},
              InvalidContexts)

SpecInvalidNames == InitInvalidNames /\ [][Next]_vars

\* parse of an M, P or O command that names a plugin
InitPlugins ==
    InitParse(PluginCommands(FqcnFragments, MaxFqcnFrags), {DefaultOptions}, {NoContext})

SpecPlugins == InitPlugins /\ [][Next]_vars

\* ------------------------------------------------------------------------
\* Abbreviations used by the properties
\* ------------------------------------------------------------------------

Input == string_parser.input

Done == pc = "done"

\* The input substring a PartWithSource covers
SourceText(p) == Slice(Input, p.source.start, p.source.end)

\* The parts of the given variant among the result
HasVariant(v) == \E i \in 1..Len(result) : result[i].part.variant = v

IsPrefixOf(p, s) == Len(p) <= Len(s) /\ SubSeq(s, 1, Len(p)) = p

\* ------------------------------------------------------------------------
\* C1  Source preservation
\* ------------------------------------------------------------------------

\* C1: the sources of the parts are slices of the input that lie one after
\* the other without gap or overlap, starting at offset 0; when parse returns
\* they end at the end of the input and their concatenation is the input.
C1_SourcePreservation ==
    /\ \A i \in 1..Len(result) :
          /\ 0 <= result[i].source.start
          /\ result[i].source.start <= result[i].source.end
          /\ result[i].source.end <= Len(Input)
          /\ result[i].source.start = IF i = 1 THEN 0 ELSE result[i - 1].source.end
    /\ Done => Flatten([i \in 1..Len(result) |-> SourceText(result[i])]) = Input

\* A finished parse of three or more parts with an Error part among them
C1_Witness ==
    /\ Done
    /\ Len(result) >= 3
    /\ HasVariant("Error")
    /\ HasVariant("Text")

\* ------------------------------------------------------------------------
\* C2  Progress and totality of the tokenizer
\* ------------------------------------------------------------------------

\* A bound on the number of steps parse still takes
Measure ==
    3 * (string_parser.length - string_parser.position) + Len(string_parser.tokens)
    + (IF Done THEN 0 ELSE 1)

\* C2: in every step of parse the cursor does not move backwards and stays
\* within the input; a call of prepare_tokens strictly advances it and queues
\* a token; every step brings parse closer to its end by the measure above;
\* and every token taken from the queue, an Error token included, adds
\* exactly one part at the end of the list, an Error part for an Error token,
\* leaving the parts before it untouched.
C2_Progress ==
    [][/\ string_parser'.position >= string_parser.position
       /\ string_parser'.position <= string_parser'.length
       /\ Measure' < Measure
       /\ Measure' >= 0
       /\ (string_parser.tokens = <<>> /\ ~Done' =>
              /\ string_parser'.position > string_parser.position
              /\ string_parser'.tokens # <<>>)
       /\ (string_parser.tokens # <<>> =>
              /\ Len(result') = Len(result) + 1
              /\ SubSeq(result', 1, Len(result)) = result
              /\ result'[Len(result')].source = get_source(Head(string_parser.tokens))
              /\ (Head(string_parser.tokens).type = "Error" =>
                     result'[Len(result')].part.variant = "Error"))
      ]_vars

\* A parse that went on after an Error part
C2_Witness ==
    /\ Done
    /\ \E i \in 1..Len(result) :
          /\ result[i].part.variant = "Error"
          /\ i < Len(result)

\* ------------------------------------------------------------------------
\* Reference readings of the markup, used to state the properties
\* ------------------------------------------------------------------------

RefClassicPrefixes ==
    {<<"I", "(">>, <<"B", "(">>, <<"M", "(">>, <<"U", "(">>, <<"L", "(">>, <<"R", "(">>,
     <<"C", "(">>, HL}

RefModernPrefixes ==
    {<<"P", "(">>, <<"E", "(">>, <<"V", "(">>, <<"O", "(">>, <<"R", "V", "(">>}

RefPrefixes(only_classic) ==
    IF only_classic THEN RefClassicPrefixes ELSE RefClassicPrefixes \cup RefModernPrefixes

\* A command prefix stands at offset i of s, at a word boundary
RefPrefixAt(s, i, prefixes) ==
    \E c \in prefixes :
        /\ HasAt(s, c, i)
        /\ ~WordAt(s, i - 1)
        /\ (c = HL => ~WordAt(s, i + Len(HL)))

RefHasPrefix(s, prefixes) == \E i \in 0..(Len(s) - 1) : RefPrefixAt(s, i, prefixes)

\* The name of the command a source starts with: the text before its '('
RefCommandName(src) ==
    IF Contains(src, "(") THEN Slice(src, 0, Min({i \in 0..(Len(src) - 1) : At(src, i) = "("}))
    ELSE src

\* ------------------------------------------------------------------------
\* C4  Text without command prefix
\* ------------------------------------------------------------------------

\* The result that consists of one Text part covering the whole input
C4_SingleText ==
    result = <<PartWithSource(PartText(Input), [start |-> 0, end |-> Len(Input)])>>

\* C4 as claimed: every input without a command prefix recognized by the
\* active parser yields a single Text part whose text and source are the
\* whole input.
C4_Original ==
    (Done /\ ~RefHasPrefix(Input, RefPrefixes(opts.only_classic_markup))) => C4_SingleText

\* C4 as amended: every non-empty input without a command prefix recognized
\* by the active parser yields a single Text part whose text and source are
\* the whole input.
C4_TextRoundTrip ==
    (Done /\ Input # <<>> /\ ~RefHasPrefix(Input, RefPrefixes(opts.only_classic_markup)))
        => C4_SingleText

\* A finished parse of an input that holds the letters of a command prefix
\* away from a word boundary
C4_Witness ==
    /\ Done
    /\ ~RefHasPrefix(Input, RefPrefixes(opts.only_classic_markup))
    /\ \E i \in 1..(Len(Input) - 1) : HasAt(Input, <<"B", "(">>, i)
    /\ C4_SingleText

\* ------------------------------------------------------------------------
\* C9  Error diagnostic format
\* ------------------------------------------------------------------------

\* The beginning of the diagnostic of an Error part, up to the detail
C9_Prefix(p) ==
    <<"While parsing ">>
    \o (IF opts.helpful_errors THEN <<"\"">> \o SourceText(p) \o <<"\"">>
        ELSE RefCommandName(SourceText(p)) \o <<"(", ")">>)
    \o <<" at index ">> \o Display(p.source.start + 1)
    \o (IF IsSome(opts.where) THEN Unwrap(opts.where) ELSE <<>>)
    \o <<": ">>

RefEscapedNames == {<<"P">>, <<"E">>, <<"V">>, <<"O">>, <<"R", "V">>}

RefTwoArgumentNames == {<<"L">>, <<"R">>}

\* The offset of the first c in s at or after i, Len(s) when there is none
RECURSIVE RefFirst(_, _, _)
RefFirst(s, c, i) ==
    IF i >= Len(s) THEN Len(s)
    ELSE IF At(s, i) = c THEN i
    ELSE RefFirst(s, c, i + 1)

\* The offset of the first ')' at or after i that no backslash escapes,
\* Len(s) when there is none
RECURSIVE RefClosing(_, _)
RefClosing(s, i) ==
    IF i >= Len(s) THEN Len(s)
    ELSE IF At(s, i) = "\\" THEN RefClosing(s, i + 2)
    ELSE IF At(s, i) = ")" THEN i
    ELSE RefClosing(s, i + 1)

\* The offset right after the closing ')' of the command that starts at
\* start, Len(s) when the command has none
RefCommandEnd(s, start) ==
    LET name == RefCommandName(Slice(s, start, Len(s)))
        from == start + Len(name) + 1
    IN  IF ~Contains(Slice(s, start, Len(s)), "(") THEN start + Len(name)
        ELSE IF name \in RefEscapedNames THEN Min({RefClosing(s, from) + 1, Len(s)})
        ELSE IF name \in RefTwoArgumentNames
        THEN Min({RefFirst(s, ")", RefFirst(s, ",", from) + 1) + 1, Len(s)})
        ELSE Min({RefFirst(s, ")", from) + 1, Len(s)})

\* s with every backslash dropped and the character after it kept
RECURSIVE RefUnescape(_)
RefUnescape(s) ==
    IF s = <<>> THEN <<>>
    ELSE IF s[1] = "\\" /\ Len(s) >= 2
    THEN <<s[2]>> \o RefUnescape(SubSeq(s, 3, Len(s)))
    ELSE <<s[1]>> \o RefUnescape(Tail(s))

\* The first escaped character of s[i..end) that is neither ')' nor '\'
RECURSIVE RefBadEscape(_, _, _)
RefBadEscape(s, i, end) ==
    IF i + 1 >= end THEN None
    ELSE IF At(s, i) # "\\" THEN RefBadEscape(s, i + 1, end)
    ELSE IF At(s, i + 1) \notin {")", "\\"} THEN Some(At(s, i + 1))
    ELSE RefBadEscape(s, i + 2, end)

RECURSIVE RefStripLeft(_)
RefStripLeft(s) ==
    IF s # <<>> /\ s[1] = " " THEN RefStripLeft(Tail(s)) ELSE s

RECURSIVE RefStripRight(_)
RefStripRight(s) ==
    IF s # <<>> /\ s[Len(s)] = " " THEN RefStripRight(SubSeq(s, 1, Len(s) - 1)) ELSE s

\* ------------------------------------------------------------------------
\* C3  Resumption after an Error part
\* ------------------------------------------------------------------------

\* C3: the source of every Error part ends right after the closing ')' of
\* its command, or at the end of the input when the command has none, so
\* that the next part starts there.
C3_ResumeAfterClosing ==
    \A i \in 1..Len(result) :
        result[i].part.variant = "Error" =>
            result[i].source.end = RefCommandEnd(Input, result[i].source.start)

\* ------------------------------------------------------------------------
\* C5  The empty paragraph
\* ------------------------------------------------------------------------

Rendered == pc = "rendered"

\* The text the Appender received through push_str
PushedText == Flatten([i \in 1..Len(appender) |-> appender[i].text])

\* The paragraph start, end and single-paragraph par_empty of each backend
RefParStart(b) ==
    IF b \in {"html_antsibull", "html_plain"} THEN <<"<", "p", ">">> ELSE <<>>

RefParEnd(b) ==
    IF b \in {"html_antsibull", "html_plain"} THEN <<"<", "/", "p", ">">> ELSE <<>>

RefParEmpty(b) ==
    IF b \in {"rst_antsibull", "rst_plain"} THEN <<"\\", " ">> ELSE <<>>

\* C5: the parse of the empty input ends with the empty list of parts, and
\* the paragraph function of every backend appends to an empty list of
\* parts exactly the backend's par_start, par_empty and par_end, without a
\* call of the formatter or of the link provider.
C5_EmptyParagraph ==
    /\ (pc # "next" /\ Input = <<>>) => result = <<>>
    /\ (Rendered /\ result = <<>>) =>
           /\ PushedText = RefParStart(backend) \o RefParEmpty(backend) \o RefParEnd(backend)
           /\ \A i \in 1..Len(appender) : appender[i].kind = "push_str"
           /\ provider_calls = <<>>

\* ------------------------------------------------------------------------
\* C6  Escapes of the escaped argument collector without strict
\* ------------------------------------------------------------------------

\* C6: without strict, the value of every OptionValue part is the text
\* between the command's parentheses with every backslash dropped and the
\* character after it kept, whatever that character is, and the command
\* ends at the first ')' that no backslash escapes.
C6_EscapedLiteral ==
    ~opts.strict =>
        \A i \in 1..Len(result) :
            result[i].part.variant = "OptionValue" =>
                /\ result[i].source.end = RefCommandEnd(Input, result[i].source.start)
                /\ result[i].part.value =
                       RefUnescape(Slice(Input, result[i].source.start + 2,
                                         result[i].source.end - 1))

\* ------------------------------------------------------------------------
\* C7  Escapes of the escaped argument collector with strict
\* ------------------------------------------------------------------------

\* C7: with strict, a V command whose argument escapes a character other
\* than ')' and '\' yields an Error part whose detail is 'Unnecessarily
\* escaped' followed by that character, and a terminated V command that
\* escapes only ')' and '\' yields its OptionValue with the escaped
\* characters literal; without strict the only error of a V command is the
\* missing closing ')'.
C7_StrictEscapes ==
    \A i \in 1..Len(result) :
        result[i].part.variant # "Text" =>
            LET p == result[i]
                from == p.source.start + 2
                closing == RefClosing(Input, from)
                bad == RefBadEscape(Input, from, closing)
            IN  /\ (opts.strict /\ IsSome(bad)) =>
                       /\ p.part.variant = "Error"
                       /\ IsPrefixOf(C9_Prefix(p) \o <<"Unnecessarily escaped ">>,
                                     p.part.message)
                       /\ Contains(p.part.message, Unwrap(bad))
                /\ (opts.strict /\ bad = None /\ closing < Len(Input)) =>
                       /\ p.part.variant = "OptionValue"
                       /\ p.part.value = RefUnescape(Slice(Input, from, closing))
                /\ (~opts.strict /\ p.part.variant = "Error") =>
                       p.part.message = C9_Prefix(p) \o CannotFindClosing

\* ------------------------------------------------------------------------
\* C8  Spaces around the arguments of the unescaped argument collector
\* ------------------------------------------------------------------------

\* C8: the text of a Link part is the text between '(' and the first comma
\* without its trailing spaces, its url is the text between that comma and
\* the closing ')' without its leading spaces, and the text of a Bold part
\* is everything between its parentheses.
C8_UnescapedStripping ==
    \A i \in 1..Len(result) :
        LET src == SourceText(result[i])
            comma == RefFirst(src, ",", 2)
        IN  /\ result[i].part.variant = "Link" =>
                   /\ result[i].part.text = RefStripRight(Slice(src, 2, comma))
                   /\ result[i].part.url =
                          RefStripLeft(Slice(src, comma + 1, Len(src) - 1))
            /\ result[i].part.variant = "Bold" =>
                   result[i].part.text = Slice(src, 2, Len(src) - 1)

\* ------------------------------------------------------------------------
\* C10  only_classic_markup
\* ------------------------------------------------------------------------

RefModernVariants ==
    {"Plugin", "EnvVariable", "OptionValue", "OptionName", "ReturnValue"}

\* The part variant each command prefix stands for
RefVariantOf(prefix) ==
    CASE prefix = <<"I", "(">> -> "Italic"
      [] prefix = <<"B", "(">> -> "Bold"
      [] prefix = <<"M", "(">> -> "Module"
      [] prefix = <<"U", "(">> -> "URL"
      [] prefix = <<"L", "(">> -> "Link"
      [] prefix = <<"R", "(">> -> "RSTRef"
      [] prefix = <<"C", "(">> -> "Code"
      [] prefix = HL -> "HorizontalLine"
      [] prefix = <<"P", "(">> -> "Plugin"
      [] prefix = <<"E", "(">> -> "EnvVariable"
      [] prefix = <<"V", "(">> -> "OptionValue"
      [] prefix = <<"O", "(">> -> "OptionName"
      [] prefix = <<"R", "V", "(">> -> "ReturnValue"

\* C10: with only_classic_markup no part of a modern variant is produced and
\* every part that is not Text (an Error part included) starts with a
\* classic command prefix, so the modern commands stay literal text; without
\* the option each of the thirteen prefixes at the start of the input begins
\* a part of its variant, or an Error part for that command.
C10_OnlyClassicMarkup ==
    /\ opts.only_classic_markup =>
          \A i \in 1..Len(result) :
              /\ result[i].part.variant \notin RefModernVariants
              /\ (result[i].part.variant # "Text" =>
                     RefPrefixAt(Input, result[i].source.start, RefClassicPrefixes))
    /\ ~opts.only_classic_markup =>
          \A c \in RefClassicPrefixes \cup RefModernPrefixes :
              (Len(result) > 0 /\ RefPrefixAt(Input, 0, {c})) =>
                  /\ result[1].part.variant \in {RefVariantOf(c), "Error"}
                  /\ IsPrefixOf(c, SourceText(result[1]))

\* With only_classic_markup, a finished parse of an input that starts with a
\* terminated modern command and came out as a single Text part
C10_Witness ==
    /\ opts.only_classic_markup
    /\ Done
    /\ RefPrefixAt(Input, 0, RefModernPrefixes)
    /\ Contains(Input, ")")
    /\ C4_SingleText

\* ------------------------------------------------------------------------
\* C11  Commands start at word boundaries only
\* ------------------------------------------------------------------------

\* A command prefix of the active parser stands at offset i of the input
\* right after a word character
RefUnanchoredPrefixAt(i) ==
    /\ WordAt(Input, i - 1)
    /\ \E c \in RefPrefixes(opts.only_classic_markup) : HasAt(Input, c, i)

\* C11: every part that is not Text starts at a command prefix that stands
\* at the start of the input or after a character that is not alphanumeric
\* or underscore (and HORIZONTALLINE is followed by no word character); no
\* part starts at a prefix that follows a word character, so that prefix
\* stays inside a Text part; an input that starts with 'RV(' starts with a
\* ReturnValue part (or its Error), and no part starts at its 'V('.
C11_WordBoundary ==
    /\ \A k \in 1..Len(result) :
           /\ result[k].part.variant # "Text" =>
                  RefPrefixAt(Input, result[k].source.start,
                              RefPrefixes(opts.only_classic_markup))
           /\ ~RefUnanchoredPrefixAt(result[k].source.start)
    /\ (~opts.only_classic_markup /\ HasAt(Input, <<"R", "V", "(">>, 0)) =>
           \A k \in 1..Len(result) :
               /\ result[k].source.start # 1
               /\ k = 1 => result[k].part.variant \in {"ReturnValue", "Error"}

\* A finished parse of an input that has a command prefix of the active
\* parser right after a word character and came out as one Text part
C11_Witness ==
    /\ Done
    /\ \E i \in 1..(Len(Input) - 1) : RefUnanchoredPrefixAt(i)
    /\ Len(result) = 1
    /\ result[1].part = PartText(Input)

\* ------------------------------------------------------------------------
\* Reference readings of an O or RV command
\* ------------------------------------------------------------------------

RefOptionLikeVariants == {"OptionName", "ReturnValue"}

\* The argument of the command a part with source covers: the text between
\* its '(' and its closing ')'
RefArgument(p) ==
    Slice(SourceText(p), Len(RefCommandName(SourceText(p))) + 1, Len(SourceText(p)) - 1)

\* The text before the first '=' of an argument
RefBeforeValue(arg) == Slice(arg, 0, RefFirst(arg, "=", 0))

\* s without its array stubs: every '[' that a ']' follows is dropped with
\* everything up to the first such ']'
RECURSIVE RefWithoutStubs(_)
RefWithoutStubs(s) ==
    IF s = <<>> THEN <<>>
    ELSE IF s[1] = "[" /\ Contains(Tail(s), "]")
    THEN RefWithoutStubs(Slice(s, RefFirst(s, "]", 1) + 1, Len(s)))
    ELSE <<s[1]>> \o RefWithoutStubs(Tail(s))

\* The pieces joined by sep
RECURSIVE RefJoin(_, _)
RefJoin(pieces, sep) ==
    IF Len(pieces) = 0 THEN <<>>
    ELSE IF Len(pieces) = 1 THEN pieces[1]
    ELSE pieces[1] \o <<sep>> \o RefJoin(Tail(pieces), sep)

\* ------------------------------------------------------------------------
\* C12  link of an option-like part
\* ------------------------------------------------------------------------

\* C12: for every OptionName and ReturnValue part, name is the text of the
\* argument before its '=' with the array stubs kept, and link is a
\* non-empty list of pieces without '.' and without array stubs that, joined
\* by '.', give name with every array stub removed.
C12_LinkOfName ==
    \A k \in 1..Len(result) :
        result[k].part.variant \in RefOptionLikeVariants =>
            /\ result[k].part.name = RefBeforeValue(RefArgument(result[k]))
            /\ Len(result[k].part.link) >= 1
            /\ \A j \in 1..Len(result[k].part.link) :
                   ~Contains(result[k].part.link[j], ".")
            /\ RefJoin(result[k].part.link, ".") = RefWithoutStubs(result[k].part.name)

\* An option-like part whose name has an array stub with a dot inside and
\* whose link has two pieces
C12_Witness ==
    \E k \in 1..Len(result) :
        /\ result[k].part.variant \in RefOptionLikeVariants
        /\ \E i \in 0..(Len(result[k].part.name) - 3) :
               HasAt(result[k].part.name, <<"[", ".", "]">>, i)
        /\ Len(result[k].part.link) = 2

\* ------------------------------------------------------------------------
\* Reference readings of the qualifiers of an O or RV command
\* ------------------------------------------------------------------------

\* The text has a 'fqcn#type:' qualifier whose '#' is at offset h and whose
\* ':' is at offset c: two dots, each after at least one character, come
\* before a '#' that follows at least one character, and the ':' is the first
\* one after the '#' and follows at least one character.
RefQualifierAt(text, h, c) ==
    /\ At(text, h) = "#"
    /\ At(text, c) = ":"
    /\ h + 1 < c
    /\ \A j \in (h + 1)..(c - 1) : At(text, j) # ":"
    /\ \A j \in (c + 1)..(Len(text) - 1) : At(text, j) # "\n"
    /\ \E d1 \in 1..(h - 2) : \E d2 \in (d1 + 2)..(h - 2) :
           /\ At(text, d1) = "."
           /\ At(text, d2) = "."
           /\ \A j \in 0..(d2 - 1) : j # d1 => At(text, j) # "."
           /\ \A j \in (d2 + 1)..(h - 1) : At(text, j) # "#"

RefQualified(text) ==
    \E h \in 0..(Len(text) - 1) : \E c \in (h + 1)..(Len(text) - 1) :
        RefQualifierAt(text, h, c)

\* A bare name: no 'fqcn#type:' qualifier and no 'ignore:' prefix
RefBare(text) == ~RefQualified(text) /\ ~IsPrefixOf(IGNORE_MARKER, text)

\* A valid option name has no ':' and no '#'
RefValidName(text) == ~Contains(text, ":") /\ ~Contains(text, "#")

\* The part comes from a terminated O or RV command
RefOptionLikeCommand(p) ==
    /\ p.part.variant # "Text"
    /\ RefCommandName(SourceText(p)) \in {<<"O">>, <<"R", "V">>}
    /\ p.source.end = RefCommandEnd(Input, p.source.start)
    /\ At(Input, p.source.end - 1) = ")"

\* The text of the argument of the command of a part, without its value
RefText(p) == RefBeforeValue(RefArgument(p))

RefIsRole(plugin) == IsSome(plugin) /\ Unwrap(plugin).type = ROLE

\* ------------------------------------------------------------------------
\* C13  Inheritance of the current plugin
\* ------------------------------------------------------------------------

\* C13 as claimed: every OptionName and ReturnValue part of a bare name,
\* parsed with a context whose current_plugin is set, has that plugin and
\* the role_entrypoint of the context.
C13_Original ==
    \A k \in 1..Len(result) :
        (/\ result[k].part.variant \in RefOptionLikeVariants
         /\ RefBare(RefText(result[k]))
         /\ IsSome(context.current_plugin)) =>
            /\ result[k].part.plugin = context.current_plugin
            /\ result[k].part.entrypoint = context.role_entrypoint

\* C13: every OptionName and ReturnValue part of a bare name, parsed with a
\* context whose current_plugin is set, has that plugin; its entrypoint is
\* the role_entrypoint of the context, unless the current plugin is a role
\* and the name has a ':', when it is the text before the first ':'; and a
\* bare valid name gives such a part unless the current plugin is a role and
\* the context has no role_entrypoint.
C13_Inheritance ==
    \A k \in 1..Len(result) :
        (/\ RefOptionLikeCommand(result[k])
         /\ RefBare(RefText(result[k]))
         /\ IsSome(context.current_plugin)) =>
            /\ result[k].part.variant \in RefOptionLikeVariants =>
                   /\ result[k].part.plugin = context.current_plugin
                   /\ result[k].part.entrypoint =
                          IF /\ RefIsRole(context.current_plugin)
                             /\ Contains(RefText(result[k]), ":")
                          THEN Some(Slice(RefText(result[k]), 0,
                                          RefFirst(RefText(result[k]), ":", 0)))
                          ELSE context.role_entrypoint
            /\ (/\ RefValidName(RefText(result[k]))
                /\ ~(RefIsRole(context.current_plugin) /\ context.role_entrypoint = None)) =>
                   result[k].part.variant \in RefOptionLikeVariants

\* An option-like part of a bare name that inherited a plugin and an
\* entrypoint from the context
C13_Witness ==
    \E k \in 1..Len(result) :
        /\ result[k].part.variant \in RefOptionLikeVariants
        /\ RefBare(RefText(result[k]))
        /\ Len(result[k].part.name) > 0
        /\ IsSome(context.current_plugin)
        /\ result[k].part.plugin = context.current_plugin
        /\ IsSome(result[k].part.entrypoint)
        /\ result[k].part.entrypoint = context.role_entrypoint

\* ------------------------------------------------------------------------
\* C14  The 'ignore:' prefix
\* ------------------------------------------------------------------------

\* The text after the 'ignore:' prefix
RefIgnored(text) == Slice(text, Len(IGNORE_MARKER), Len(text))

\* C14: in every context, an O or RV command whose argument starts with
\* 'ignore:' followed by a valid name gives an OptionName or ReturnValue
\* part, and every such part of an argument that starts with 'ignore:' has
\* no plugin, no entrypoint, and the text after the prefix as its name.
C14_IgnorePrefix ==
    \A k \in 1..Len(result) :
        (/\ RefOptionLikeCommand(result[k])
         /\ IsPrefixOf(IGNORE_MARKER, RefText(result[k]))) =>
            /\ RefValidName(RefIgnored(RefText(result[k]))) =>
                   result[k].part.variant =
                       (IF RefCommandName(SourceText(result[k])) = <<"O">>
                        THEN "OptionName" ELSE "ReturnValue")
            /\ result[k].part.variant \in RefOptionLikeVariants =>
                   /\ result[k].part.plugin = None
                   /\ result[k].part.entrypoint = None
                   /\ result[k].part.name = RefIgnored(RefText(result[k]))

\* A part of O(ignore:name) or RV(ignore:name) with a non-empty name, parsed
\* in a context that has a current plugin and a role entrypoint
C14_Witness ==
    /\ IsSome(context.current_plugin)
    /\ IsSome(context.role_entrypoint)
    /\ \E k \in 1..Len(result) :
          /\ result[k].part.variant \in RefOptionLikeVariants
          /\ IsPrefixOf(IGNORE_MARKER, RefText(result[k]))
          /\ result[k].part.plugin = None
          /\ Len(result[k].part.name) > 0

\* ------------------------------------------------------------------------
\* Reference readings of plugin names and types
\* ------------------------------------------------------------------------

RefNameChars == Lower \cup Digit \cup {"_"}

\* ^[a-z0-9_]+\.[a-z0-9_]+(\.[a-z0-9_]+)+$ : lower-case letters, digits,
\* underscores and at least two dots, none of them first, last or doubled
RefIsFqcn(s) ==
    /\ Len(s) > 0
    /\ \A i \in 1..Len(s) : s[i] \in RefNameChars \cup {"."}
    /\ s[1] # "." /\ s[Len(s)] # "."
    /\ \A i \in 1..(Len(s) - 1) : ~(s[i] = "." /\ s[i + 1] = ".")
    /\ \E i \in 1..Len(s) : \E j \in (i + 1)..Len(s) : s[i] = "." /\ s[j] = "."

\* ^[a-z_]+$
RefIsPluginType(s) ==
    /\ Len(s) > 0
    /\ \A i \in 1..Len(s) : s[i] \in Lower \cup {"_"}

\* The offsets of the '#' and the ':' of the qualifier of a qualified text
RefQualifierOffsets(text) ==
    CHOOSE hc \in (0..(Len(text) - 1)) \X (0..(Len(text) - 1)) :
        RefQualifierAt(text, hc[1], hc[2])

RefQualifierFqcn(text) == Slice(text, 0, RefQualifierOffsets(text)[1])

RefQualifierType(text) ==
    Slice(text, RefQualifierOffsets(text)[1] + 1, RefQualifierOffsets(text)[2])

RefAfterQualifier(text) == Slice(text, RefQualifierOffsets(text)[2] + 1, Len(text))

\* ------------------------------------------------------------------------
\* C15  Entrypoint of a role
\* ------------------------------------------------------------------------

\* The text of the part's command in which a role looks for its entrypoint:
\* the text after the qualifier, or the whole bare text
RefRoleText(p) ==
    IF RefQualified(RefText(p)) THEN RefAfterQualifier(RefText(p)) ELSE RefText(p)

\* The command of the part refers to a role: by a valid qualifier of type
\* 'role', or by a bare name in a context whose current plugin is a role
RefRefersToRole(p) ==
    IF RefQualified(RefText(p))
    THEN /\ RefIsFqcn(RefQualifierFqcn(RefText(p)))
         /\ RefQualifierType(RefText(p)) = ROLE
    ELSE RefBare(RefText(p)) /\ RefIsRole(context.current_plugin)

\* The entrypoint a command inherits: that of the context for a bare name
RefInherited(p) ==
    IF RefQualified(RefText(p)) THEN None ELSE context.role_entrypoint

\* C15: every OptionName and ReturnValue part whose plugin is a role has an
\* entrypoint; a command that refers to a role and whose text has a ':'
\* gives, when the text after the first ':' is a valid name, a part whose
\* entrypoint is the text before that ':' and whose name is the text after
\* it; without a ':' the part has the inherited entrypoint, and without
\* inherited entrypoint the result is the Error 'Role reference is missing
\* entrypoint'.
C15_RoleEntrypoint ==
    \A k \in 1..Len(result) :
        /\ (/\ result[k].part.variant \in RefOptionLikeVariants
            /\ RefIsRole(result[k].part.plugin)) => IsSome(result[k].part.entrypoint)
        /\ (RefOptionLikeCommand(result[k]) /\ RefRefersToRole(result[k])) =>
               LET text == RefRoleText(result[k])
                   colon == RefFirst(text, ":", 0)
               IN  IF colon < Len(text)
                   THEN IF RefValidName(Slice(text, colon + 1, Len(text)))
                        THEN /\ result[k].part.variant \in RefOptionLikeVariants
                             /\ RefIsRole(result[k].part.plugin)
                             /\ result[k].part.entrypoint = Some(Slice(text, 0, colon))
                             /\ result[k].part.name = Slice(text, colon + 1, Len(text))
                        ELSE result[k].part.variant = "Error"
                   ELSE IF RefInherited(result[k]) = None
                   THEN /\ result[k].part.variant = "Error"
                        /\ result[k].part.message =
                               C9_Prefix(result[k])
                               \o <<"Role reference is missing entrypoint">>
                   ELSE /\ result[k].part.variant \in RefOptionLikeVariants
                        /\ result[k].part.entrypoint = RefInherited(result[k])

\* A part of a command with an explicit role qualifier and an entrypoint,
\* parsed in a context with another entrypoint
C15_Witness ==
    /\ IsSome(context.role_entrypoint)
    /\ \E k \in 1..Len(result) :
          /\ result[k].part.variant \in RefOptionLikeVariants
          /\ RefQualified(RefText(result[k]))
          /\ RefIsRole(result[k].part.plugin)
          /\ IsSome(result[k].part.entrypoint)
          /\ Len(Unwrap(result[k].part.entrypoint)) > 0
          /\ result[k].part.entrypoint # context.role_entrypoint
          /\ Len(result[k].part.name) > 0

\* The Error part of a command with an explicit role qualifier and no
\* entrypoint, parsed in a context that has a role entrypoint
C15_WitnessMissing ==
    /\ IsSome(context.role_entrypoint)
    /\ \E k \in 1..Len(result) :
          /\ result[k].part.variant = "Error"
          /\ RefQualified(RefText(result[k]))
          /\ RefRefersToRole(result[k])

\* ------------------------------------------------------------------------
\* C16  Validity of plugin names and types
\* ------------------------------------------------------------------------

\* The part comes from a terminated command of the given name
RefCommand(p, name) ==
    /\ p.part.variant # "Text"
    /\ RefCommandName(SourceText(p)) = name
    /\ p.source.end = RefCommandEnd(Input, p.source.start)
    /\ At(Input, p.source.end - 1) = ")"

\* The argument of a P command before and after its first '#'
RefPluginFqcn(arg) == Slice(arg, 0, RefFirst(arg, "#", 0))

RefPluginType(arg) == Slice(arg, RefFirst(arg, "#", 0) + 1, Len(arg))

\* C16: the fqcn of every Module part, the plugin of every Plugin part and
\* the plugin of every OptionName and ReturnValue part with a qualifier have
\* a valid FQCN and a valid type; an M command gives a Module part of its
\* argument if that is a valid FQCN and otherwise the Error 'Module name X
\* is not a FQCN'; a P command 'fqcn#type' gives a Plugin part if both are
\* valid and otherwise an Error part; and a qualified O command with an
\* invalid FQCN or type gives an Error part.
C16_ValidPlugins ==
    \A k \in 1..Len(result) :
        LET p == result[k]
            arg == RefArgument(p)
        IN  /\ p.part.variant = "Module" => RefIsFqcn(p.part.fqcn)
            /\ p.part.variant = "Plugin" =>
                   /\ RefIsFqcn(p.part.plugin.fqcn)
                   /\ RefIsPluginType(p.part.plugin.type)
            /\ (p.part.variant \in RefOptionLikeVariants /\ RefQualified(RefText(p))) =>
                   /\ IsSome(p.part.plugin)
                   /\ Unwrap(p.part.plugin).fqcn = RefQualifierFqcn(RefText(p))
                   /\ Unwrap(p.part.plugin).type = RefQualifierType(RefText(p))
                   /\ RefIsFqcn(Unwrap(p.part.plugin).fqcn)
                   /\ RefIsPluginType(Unwrap(p.part.plugin).type)
            /\ RefCommand(p, <<"M">>) =>
                   p.part = IF RefIsFqcn(arg) THEN PartModule(arg)
                            ELSE PartError(C9_Prefix(p) \o <<"Module name ">>
                                           \o Debug(arg) \o <<" is not a FQCN">>)
            /\ (RefCommand(p, <<"P">>) /\ Contains(arg, "#")) =>
                   IF RefIsFqcn(RefPluginFqcn(arg)) /\ RefIsPluginType(RefPluginType(arg))
                   THEN p.part = PartPlugin(PluginIdentifier(RefPluginFqcn(arg),
                                                             RefPluginType(arg)))
                   ELSE p.part.variant = "Error"
            /\ (/\ RefCommand(p, <<"O">>)
                /\ RefQualified(RefText(p))
                /\ ~(/\ RefIsFqcn(RefQualifierFqcn(RefText(p)))
                     /\ RefIsPluginType(RefQualifierType(RefText(p))))) =>
                   p.part.variant = "Error"

\* A Module part, a Plugin part or a qualified OptionName part was built
C16_Witness ==
    \E k \in 1..Len(result) :
        \/ result[k].part.variant = "Plugin"
        \/ /\ result[k].part.variant = "OptionName"
           /\ IsSome(result[k].part.plugin)

\* The Error part of an M command whose argument has two pieces only
C16_WitnessError ==
    \E k \in 1..Len(result) :
        /\ RefCommand(result[k], <<"M">>)
        /\ result[k].part.variant = "Error"
        /\ Len(RefArgument(result[k])) = 3

\* ------------------------------------------------------------------------
\* C17  The URL of a part
\* ------------------------------------------------------------------------

\* The calls of Formatter::append among what the Appender received
FormatterCalls == SelectSeq(appender, LAMBDA item : item.kind = "append")

\* The value comparison of the part's plugin with the current_plugin argument
RefCurrent(plugin) == IsSome(current_plugin) /\ plugin = Unwrap(current_plugin)

\* The call of the link provider that a part causes, if any
RefProviderCall(part) ==
    CASE part.variant = "Module" ->
             Some(PluginLinkCall(PluginIdentifier(part.fqcn, <<"m", "o", "d", "u", "l", "e">>)))
      [] part.variant = "Plugin" -> Some(PluginLinkCall(part.plugin))
      [] part.variant \in RefOptionLikeVariants /\ IsSome(part.plugin) ->
             Some(PluginOptionLikeLinkCall(
                      Unwrap(part.plugin), part.entrypoint,
                      IF part.variant = "OptionName" THEN "Option" ELSE "RetVal",
                      part.link, RefCurrent(Unwrap(part.plugin))))
      [] OTHER -> None

\* What the link provider answers to a call
RefAnswer(call) ==
    IF call.fn = "plugin_link" THEN plugin_link(link_provider, call.plugin)
    ELSE plugin_option_like_link(link_provider, call.plugin, call.entrypoint, call.what,
                                 call.name, call.current_plugin)

\* The calls that the parts from the k-th on cause, in their order
RECURSIVE RefProviderCalls(_, _)
RefProviderCalls(parts, k) ==
    IF k > Len(parts) THEN <<>>
    ELSE RefProviderCall(parts[k]) \o RefProviderCalls(parts, k + 1)

\* C17: the paragraph function hands every part to the formatter once, in
\* order, with the URL the link provider answered to the one call the part
\* causes: plugin_link for a Module part (type 'module') and a Plugin part,
\* plugin_option_like_link for an OptionName or ReturnValue part with a
\* plugin, with current true iff that plugin equals the current_plugin
\* argument by value; any other part has no URL and causes no call.
C17_PartUrl ==
    Rendered =>
        /\ Len(FormatterCalls) = Len(result)
        /\ \A k \in 1..Len(result) :
               /\ FormatterCalls[k].part = Some(result[k].part)
               /\ FormatterCalls[k].url =
                      IF IsSome(RefProviderCall(result[k].part))
                      THEN RefAnswer(Unwrap(RefProviderCall(result[k].part)))
                      ELSE None
        /\ provider_calls = RefProviderCalls(Parts(result), 1)

\* A rendered paragraph with an option-like part whose plugin has the name
\* of the current_plugin argument and another type, and with a URL
C17_Witness ==
    /\ Rendered
    /\ IsSome(current_plugin)
    /\ \E k \in 1..Len(result) :
          /\ result[k].part.variant \in RefOptionLikeVariants
          /\ IsSome(result[k].part.plugin)
          /\ Unwrap(result[k].part.plugin).fqcn = Unwrap(current_plugin).fqcn
          /\ Unwrap(result[k].part.plugin) # Unwrap(current_plugin)
          /\ IsSome(FormatterCalls[k].url)

\* ------------------------------------------------------------------------
\* C18  Order of the output of a paragraph
\* ------------------------------------------------------------------------

\* C18: what the paragraph function appends starts with par_start and ends
\* with par_end; between them is, for an empty list of parts, the one string
\* par_empty, and otherwise the formatter's output for each part, in the
\* order of the parts, and no par_empty.
C18_ParagraphOrder ==
    Rendered =>
        /\ Len(appender) >= 2
        /\ appender[1] = PushedStr(RefParStart(backend))
        /\ appender[Len(appender)] = PushedStr(RefParEnd(backend))
        /\ IF result = <<>>
           THEN Len(appender) = 3 /\ appender[2].kind = "push_str"
           ELSE /\ Len(appender) = Len(result) + 2
                /\ \A k \in 1..Len(result) :
                       /\ appender[k + 1].kind = "append"
                       /\ appender[k + 1].part = Some(result[k].part)

\* A rendered paragraph of a text followed by a part of another variant
C18_Witness ==
    /\ Rendered
    /\ Len(result) = 2
    /\ result[1].part.variant = "Text"
    /\ result[2].part.variant # "Text"
    /\ Len(appender) = 4

\* ------------------------------------------------------------------------
\* C19  Separators between paragraphs
\* ------------------------------------------------------------------------

RenderedAll == pc = "rendered_all"

\* The formatter, the separator and the multi-paragraph par_empty of each
\* backend
RefFormatter(b) ==
    CASE b = "ansible_doc_text" -> "ANSIBLE_DOC_TEXT_FORMATTER"
      [] b = "html_antsibull" -> "ANTSIBULL_HTML_FORMATTER"
      [] b = "html_plain" -> "PLAIN_HTML_FORMATTER"
      [] b = "md" -> "MARKDOWN_FORMATTER"
      [] b = "rst_antsibull" -> "ANTSIBULL_RST_FORMATTER"
      [] b = "rst_plain" -> "PLAIN_RST_FORMATTER"

RefParSep(b) ==
    IF b \in {"html_antsibull", "html_plain"} THEN <<>> ELSE <<"\n", "\n">>

RefParEmptyOfMany(b) ==
    CASE b = "md" -> <<" ">>
      [] b \in {"rst_antsibull", "rst_plain"} -> <<"\\", " ">>
      [] OTHER -> <<>>

\* The rendering of the i-th paragraph alone, into an empty Appender
RefRendering(i) ==
    append_paragraph(<<>>, paragraphs[i], RefFormatter(backend), link_provider,
                     RefParStart(backend), RefParEnd(backend),
                     RefParEmptyOfMany(backend), current_plugin)

\* The renderings of the first k paragraphs with a separator between each
\* two successive ones
RECURSIVE RefSeparated(_)
RefSeparated(k) ==
    IF k = 0 THEN <<>>
    ELSE IF k = 1 THEN RefRendering(1).appender
    ELSE RefSeparated(k - 1) \o <<PushedStr(RefParSep(backend))>>
         \o RefRendering(k).appender

RECURSIVE RefCallsOfParagraphs(_)
RefCallsOfParagraphs(k) ==
    IF k = 0 THEN <<>> ELSE RefCallsOfParagraphs(k - 1) \o RefRendering(k).calls

\* C19: the multi-paragraph function appends the renderings of the k
\* paragraphs in their order, with par_sep between each two successive
\* paragraphs and neither before the first nor after the last one: k - 1
\* separators for k >= 1, nothing at all for k = 0; an empty paragraph is
\* rendered and separated like any other.
C19_Separators ==
    RenderedAll =>
        /\ appender = RefSeparated(Len(paragraphs))
        /\ provider_calls = RefCallsOfParagraphs(Len(paragraphs))
        /\ paragraphs = <<>> => appender = <<>>

\* Two paragraphs rendered, the first of them empty
C19_Witness ==
    /\ RenderedAll
    /\ Len(paragraphs) = 2
    /\ paragraphs[1] = <<>>
    /\ paragraphs[2] # <<>>
    /\ Len(appender) > 2

\* ------------------------------------------------------------------------
\* C20  The paragraph functions of the Markdown backend
\* ------------------------------------------------------------------------

\* The rendering of the i-th paragraph with the Markdown formatter, an empty
\* start and end, and one space for an empty paragraph
RefMdRendering(i) ==
    append_paragraph(<<>>, paragraphs[i], "MARKDOWN_FORMATTER", link_provider,
                     <<>>, <<>>, <<" ">>, current_plugin).appender

\* The Markdown renderings of the first k paragraphs, two newlines between
\* each two successive ones
RECURSIVE RefMdSeparated(_)
RefMdSeparated(k) ==
    IF k = 0 THEN <<>>
    ELSE IF k = 1 THEN RefMdRendering(1)
    ELSE RefMdSeparated(k - 1) \o <<PushedStr(<<"\n", "\n">>)>> \o RefMdRendering(k)

\* C20: append_md_paragraph renders a paragraph with an empty par_start,
\* par_end and par_empty, so that it pushes no text at all, and for an empty
\* list of parts appends nothing; append_md_paragraphs separates the
\* paragraphs by two newlines and renders an empty paragraph as one space.
C20_MarkdownParagraphs ==
    /\ (Rendered /\ backend = "md") =>
           /\ PushedText = <<>>
           /\ appender = append_paragraph(<<>>, Parts(result), "MARKDOWN_FORMATTER",
                                          link_provider, <<>>, <<>>, <<>>,
                                          current_plugin).appender
    /\ (RenderedAll /\ backend = "md") =>
           appender = RefMdSeparated(Len(paragraphs))

\* ------------------------------------------------------------------------
\* C21  Escapers leave a text without escapable characters alone
\* ------------------------------------------------------------------------

Returned == pc = "returned"

Escaper == Unwrap(arguments).function

EscapedText == Unwrap(arguments).text

EscapedTo == Unwrap(returned).str

RefUrlSafeChars ==
    {"A", "B", "C", "D", "E", "F", "G", "H", "I", "J", "K", "L", "M", "N", "O", "P",
     "Q", "R", "S", "T", "U", "V", "W", "X", "Y", "Z", "a", "b", "c", "d", "e", "f",
     "g", "h", "i", "j", "k", "l", "m", "n", "o", "p", "q", "r", "s", "t", "u", "v",
     "w", "x", "y", "z", "0", "1", "2", "3", "4", "5", "6", "7", "8", "9", "-", "_",
     ".", "!", "~", "*", "'", "(", ")", ";", "/", "?", ":", "@", "&", "=", "+", "$",
     ",", "#"}

RefUrlSafe == {Byte(c) : c \in RefUrlSafeChars}

RefMdEscapedChars ==
    {"!", "\"", "#", "$", "%", "&", "'", "(", ")", "*", "+", ",", ":", ";", "<", "=",
     ">", "?", "@", "[", "\\", "]", "^", "_", GRAVE, "{", "|", "}", "~", ".", "-"}

RefRstEscapedChars == {"\\", "<", ">", "_", "*", GRAVE}

\* The called escaper rewrites the byte at offset i of the text.
RefRewrittenAt(i) ==
    CASE Escaper = "URLEscaper::escape" -> At(EscapedText, i) \notin RefUrlSafe
      [] Escaper = "URLEscaper::escape_with_html_escape" ->
             At(EscapedText, i) \notin RefUrlSafe \ {Byte("&")}
      [] Escaper = "HTMLEscaper::escape" ->
             At(EscapedText, i) \in {Byte("<"), Byte(">"), Byte("&")}
      [] Escaper = "MDEscaper::escape" ->
             At(EscapedText, i) \in {Byte(c) : c \in RefMdEscapedChars}
      [] Escaper = "RSTEscaper::escape" ->
             \/ At(EscapedText, i) \in {Byte(c) : c \in RefRstEscapedChars}
             \/ /\ Unwrap(arguments).escape_ending_whitespace
                /\ At(EscapedText, i) = Byte(" ")
                /\ i \in {0, Len(EscapedText) - 1}

RefNothingToRewrite == \A i \in 0..(Len(EscapedText) - 1) : ~RefRewrittenAt(i)

\* C21 as stated: every escaper returns a text without a character it
\* rewrites as it is.
C21_Original == (Returned /\ RefNothingToRewrite) => EscapedTo = EscapedText

RefEmptyMadeNonEmpty ==
    /\ Escaper = "RSTEscaper::escape"
    /\ Unwrap(arguments).must_not_be_empty
    /\ EscapedText = <<>>

\* C21: every escaper returns a text without a character it rewrites as it
\* is, borrowed from the caller; the one exception is the RST escaper with
\* must_not_be_empty, which returns a backslash and a space for the empty
\* text.
C21_CopyOnWrite ==
    (Returned /\ RefNothingToRewrite) =>
        IF RefEmptyMadeNonEmpty
        THEN EscapedTo = Bytes(<<"\\", " ">>)
        ELSE Unwrap(returned) = Borrowed(EscapedText)

\* The RST escaper returned a text with an inner space and a non-ASCII
\* character as it is, with both flags set
C21_Witness ==
    /\ Returned
    /\ Escaper = "RSTEscaper::escape"
    /\ Unwrap(arguments).escape_ending_whitespace
    /\ Unwrap(arguments).must_not_be_empty
    /\ EscapedText = <<195, 169>> \o Bytes(<<" ", "a">>)
    /\ EscapedTo = EscapedText

\* ------------------------------------------------------------------------
\* C22  Percent-encoding of URLs
\* ------------------------------------------------------------------------

RefHexDigits ==
    Bytes(<<"0", "1", "2", "3", "4", "5", "6", "7", "8", "9",
            "A", "B", "C", "D", "E", "F">>)

\* '%' and the two upper-case hex digits of the byte b
RefPercent(b) == <<Byte("%"), RefHexDigits[(b \div 16) + 1], RefHexDigits[(b % 16) + 1]>>

\* Every byte outside the safe set replaced by its percent-encoding
RefUrlEncoded(x) ==
    Flatten([i \in 1..Len(x) |-> IF x[i] \in RefUrlSafe THEN <<x[i]>>
                                 ELSE RefPercent(x[i])])

\* Every '&' replaced by '&amp;'
RefAmpersandsEscaped(y) ==
    Flatten([i \in 1..Len(y) |-> IF y[i] = Byte("&")
                                 THEN Bytes(<<"&", "a", "m", "p", ";">>)
                                 ELSE <<y[i]>>])

\* C22: URLEscaper.escape copies the bytes of the safe set and replaces
\* every other byte, '%' and the bytes of a multi-byte character included,
\* by '%' and its two upper-case hex digits; escape_with_html_escape
\* returns what escape returns with every '&' replaced by '&amp;'.
C22_PercentEncoding ==
    /\ (Returned /\ Escaper = "URLEscaper::escape") =>
           EscapedTo = RefUrlEncoded(EscapedText)
    /\ (Returned /\ Escaper = "URLEscaper::escape_with_html_escape") =>
           /\ EscapedTo = RefAmpersandsEscaped(RefUrlEncoded(EscapedText))
           /\ EscapedTo = RefAmpersandsEscaped(url_escape(EscapedText).str)

\* escape_with_html_escape returned '&amp;%C3%A9' for '&' and U+00E9
C22_Witness ==
    /\ Returned
    /\ Escaper = "URLEscaper::escape_with_html_escape"
    /\ EscapedText = Bytes(<<"&">>) \o <<195, 169>>
    /\ EscapedTo = Bytes(<<"&", "a", "m", "p", ";", "%", "C", "3", "%", "A", "9">>)

\* ------------------------------------------------------------------------
\* C23  The RST escaper
\* ------------------------------------------------------------------------

\* A backslash before each of \ < > _ * and the grave accent
RefRstBackslashed(x) ==
    Flatten([i \in 1..Len(x) |->
                 IF x[i] \in {Byte(c) : c \in RefRstEscapedChars}
                 THEN <<Byte("\\"), x[i]>>
                 ELSE <<x[i]>>])

RefEscapedSpace == Bytes(<<"\\", " ">>)

\* The escaped space put before a text that begins, and after a text that
\* ends, with a space
RefRstEnds(x, body) ==
    (IF x[1] = Byte(" ") THEN RefEscapedSpace ELSE <<>>)
    \o body
    \o (IF x[Len(x)] = Byte(" ") THEN RefEscapedSpace ELSE <<>>)

\* C23: RSTEscaper.escape returns, for the empty text, a backslash and a
\* space if must_not_be_empty and the empty text otherwise; for a non-empty
\* text, whatever must_not_be_empty is, the text with a backslash before
\* each of \ < > _ * and the grave accent, and, if escape_ending_whitespace
\* is set, an escaped space before it when it begins with a space and
\* after it when it ends with a space.
C23_RstEscape ==
    (Returned /\ Escaper = "RSTEscaper::escape") =>
        IF EscapedText = <<>>
        THEN EscapedTo = (IF Unwrap(arguments).must_not_be_empty THEN RefEscapedSpace
                          ELSE <<>>)
        ELSE IF Unwrap(arguments).escape_ending_whitespace
        THEN EscapedTo = RefRstEnds(EscapedText, RefRstBackslashed(EscapedText))
        ELSE EscapedTo = RefRstBackslashed(EscapedText)

\* The text of a single space, escaped with escape_ending_whitespace
C23_Witness ==
    /\ Returned
    /\ Escaper = "RSTEscaper::escape"
    /\ Unwrap(arguments).escape_ending_whitespace
    /\ EscapedText = Bytes(<<" ">>)
    /\ EscapedTo = Bytes(<<"\\", " ", " ", "\\", " ">>)

\* ------------------------------------------------------------------------
\* C24  Modules and plugins in the antsibull HTML backend
\* ------------------------------------------------------------------------

RefHtmlEscaped(x) ==
    Flatten([i \in 1..Len(x) |->
                 CASE x[i] = Byte("<") -> Bytes(<<"&", "l", "t", ";">>)
                   [] x[i] = Byte(">") -> Bytes(<<"&", "g", "t", ";">>)
                   [] x[i] = Byte("&") -> Bytes(<<"&", "a", "m", "p", ";">>)
                   [] OTHER -> <<x[i]>>])

RefFqcnOfPart(part) == IF part.variant = "Module" THEN part.fqcn ELSE part.plugin.fqcn

RefFormatted == Returned /\ Escaper = "AntsibullHTMLFormatter::append"

\* The link with the class before, and with the class after, the href
RefModuleLinkClassFirst(url, fqcn) ==
    Bytes(<<"<", "a", " ", "c", "l", "a", "s", "s", "=", "'", "m", "o", "d", "u", "l",
            "e", "'", " ", "h", "r", "e", "f", "=", "'">>)
    \o RefAmpersandsEscaped(RefUrlEncoded(url))
    \o Bytes(<<"'", ">">>) \o RefHtmlEscaped(fqcn) \o Bytes(<<"<", "/", "a", ">">>)

RefModuleSpan(fqcn) ==
    Bytes(<<"<", "s", "p", "a", "n", " ", "c", "l", "a", "s", "s", "=", "'", "m", "o",
            "d", "u", "l", "e", "'", ">">>)
    \o RefHtmlEscaped(fqcn) \o Bytes(<<"<", "/", "s", "p", "a", "n", ">">>)

\* C24: the antsibull HTML formatter appends for a Module or Plugin part
\* <a class='module' href='URL'>FQCN</a>, the URL percent-encoded and
\* HTML-escaped and the FQCN HTML-escaped, when it is given a URL, and
\* <span class='module'>FQCN</span> when it is given none.
C24_ModuleLink ==
    RefFormatted =>
        PushedText = IF IsSome(Unwrap(arguments).url)
                     THEN RefModuleLinkClassFirst(Unwrap(Unwrap(arguments).url),
                                                  RefFqcnOfPart(Unwrap(arguments).part))
                     ELSE RefModuleSpan(RefFqcnOfPart(Unwrap(arguments).part))

\* ------------------------------------------------------------------------
\* C25  The paragraph number in the errors of parse_paragraphs
\* ------------------------------------------------------------------------

Called(function) == Returned /\ Unwrap(arguments).function = function

\* The offset after the digits that start at the offset i of the message
RECURSIVE RefDigitsEnd(_, _)
RefDigitsEnd(message, i) ==
    IF i < Len(message) /\ At(message, i) \in Digit
    THEN RefDigitsEnd(message, i + 1)
    ELSE i

\* The offset after the index that the message gives
RefIndexEnd(message) ==
    RefDigitsEnd(message,
                 CHOOSE i \in 1..Len(message) : message[i] = " at index ")

\* The message with ' of paragraph n' directly after its index
RefWithParagraph(message, n) ==
    Slice(message, 0, RefIndexEnd(message))
    \o <<" of paragraph ">> \o Display(n)
    \o Slice(message, RefIndexEnd(message), Len(message))

\* The part of the n-th paragraph for the part of the paragraph parsed alone
RefPartOfParagraph(p, n) ==
    IF p.part.variant = "Error"
    THEN PartWithSource(PartError(RefWithParagraph(p.part.message, n)), p.source)
    ELSE p

RefParsedAlone(n) == parse(Unwrap(arguments).input[n], context, opts)

\* C25: parse_paragraphs returns one list of parts for every paragraph, in
\* the order of the paragraphs; the list of the N-th paragraph is the parse
\* of that paragraph alone, with ' of paragraph N' put directly after the
\* index in every Error message, before the where of the caller; the
\* ParseOptions of the caller keep their where.
C25_ParagraphErrors ==
    Called("parse_paragraphs") =>
        /\ Len(Unwrap(returned)) = Len(Unwrap(arguments).input)
        /\ \A n \in 1..Len(Unwrap(arguments).input) :
               Unwrap(returned)[n] =
                   [j \in 1..Len(RefParsedAlone(n)) |->
                        RefPartOfParagraph(RefParsedAlone(n)[j], n)]
        /\ opts \in WhereOptions

\* Two paragraphs parsed with a where, an Error part in the second one
C25_Witness ==
    /\ Called("parse_paragraphs")
    /\ IsSome(opts.where)
    /\ Len(Unwrap(returned)) = 2
    /\ \E j \in 1..Len(Unwrap(returned)[2]) :
           /\ Unwrap(returned)[2][j].part.variant = "Error"
           /\ \E k \in 1..Len(Unwrap(returned)[2][j].part.message) :
                  Unwrap(returned)[2][j].part.message[k] = " of paragraph "

\* ------------------------------------------------------------------------
\* C30  The parse functions with and without sources
\* ------------------------------------------------------------------------

\* C30: parse_without_sources returns the parts of what parse returns for
\* the same input, context and options, one by one and Error messages
\* included, and parse_paragraphs_without_sources returns, paragraph by
\* paragraph, the parts of what parse_paragraphs returns.
C30_SameParts ==
    /\ Called("parse_without_sources") =>
           Unwrap(returned) = Parts(parse(Unwrap(arguments).input[1], context, opts))
    /\ Called("parse") =>
           Parts(Unwrap(returned))
               = parse_without_sources(Unwrap(arguments).input[1], context, opts)
    /\ Called("parse_paragraphs_without_sources") =>
           Unwrap(returned)
               = [n \in 1..Len(Unwrap(arguments).input) |->
                      Parts(parse_paragraphs(Unwrap(arguments).input, context, opts)[n])]
    /\ Called("parse_paragraphs") =>
           [n \in 1..Len(Unwrap(returned)) |-> Parts(Unwrap(returned)[n])]
               = parse_paragraphs_without_sources(Unwrap(arguments).input, context,
                                                  opts)

\* parse_paragraphs_without_sources returned two paragraphs, a part with an
\* Error message in the first and a Bold part in the second
C30_Witness ==
    /\ Called("parse_paragraphs_without_sources")
    /\ Len(Unwrap(returned)) = 2
    /\ \E j \in 1..Len(Unwrap(returned)[1]) : Unwrap(returned)[1][j].variant = "Error"
    /\ \E j \in 1..Len(Unwrap(returned)[2]) : Unwrap(returned)[2][j].variant = "Bold"

\* ------------------------------------------------------------------------
\* C26  Commands without their end
\* ------------------------------------------------------------------------

\* The offset of the command of the input, which may follow one space
RefLead == IF Input # <<>> /\ Input[1] = " " THEN 1 ELSE 0

RefOpenName == RefCommandName(Slice(Input, RefLead, Len(Input)))

\* The input after the opening parenthesis of the command
RefRest == Slice(Input, RefLead + Len(RefOpenName) + 1, Len(Input))

RefAfterComma == Slice(RefRest, RefFirst(RefRest, ",", 0) + 1, Len(RefRest))

\* The command takes two parameters and no comma follows the first one
RefMissingComma == RefOpenName \in RefTwoArgumentNames /\ ~Contains(RefRest, ",")

\* No closing parenthesis follows the last parameter of the command
RefMissingClosing ==
    IF RefOpenName \in RefEscapedNames THEN RefClosing(RefRest, 0) = Len(RefRest)
    ELSE IF RefOpenName \in RefTwoArgumentNames
    THEN Contains(RefRest, ",") /\ ~Contains(RefAfterComma, ")")
    ELSE ~Contains(RefRest, ")")

RefOpenDetail ==
    IF RefMissingComma
    THEN <<"Cannot find comma separating parameter ", "1", " from the next one">>
    ELSE <<"Cannot find closing \")\" after last parameter">>

\* s has, at or after i, a backslash before a character other than ')'
\* and '\'
RECURSIVE RefNeedlessEscape(_, _)
RefNeedlessEscape(s, i) ==
    IF i + 1 >= Len(s) THEN FALSE
    ELSE IF At(s, i) = "\\"
    THEN At(s, i + 1) \notin {")", "\\"} \/ RefNeedlessEscape(s, i + 2)
    ELSE RefNeedlessEscape(s, i + 1)

\* With strict, the escaped collector stops at an escape before it misses
\* the closing parenthesis.
RefStoppedAtEscape ==
    opts.strict /\ RefOpenName \in RefEscapedNames /\ RefNeedlessEscape(RefRest, 0)

\* The result of a command without its end: the cursor is at the end of the
\* input once the command was read, the command gave one Error part from
\* its first character to the end of the input with the detail of what is
\* missing, and no part follows.
RefOpenResult ==
    /\ string_parser.position <= RefLead \/ string_parser.position = Len(Input)
    /\ \A k \in 1..Len(result) :
           result[k].source.start >= RefLead =>
               /\ result[k].source = [start |-> RefLead, end |-> Len(Input)]
               /\ result[k].part = PartError(C9_Prefix(result[k]) \o RefOpenDetail)
    /\ Done => Len(result) = RefLead + 1

C26_WitnessEscaped ==
    /\ Done
    /\ RefOpenName = <<"V">>
    /\ RefMissingClosing
    /\ ~RefStoppedAtEscape
    /\ Contains(RefRest, "\\")
    /\ result[Len(result)].part.variant = "Error"

\* ------------------------------------------------------------------------
\* C27  The value of an option or return value
\* ------------------------------------------------------------------------

\* The part covers an O or RV command that its closing ')' ends
RefClosedOptionLike(p) ==
    /\ RefOptionLikeCommand(p)
    /\ RefClosing(Input, p.source.start + Len(RefCommandName(SourceText(p))) + 1)
           = p.source.end - 1

\* The argument of the command of a part after escape processing
RefUnescapedArgument(p) == RefUnescape(RefArgument(p))

\* The value of an argument: everything after its first '=', None without '='
RefValue(arg) ==
    IF Contains(arg, "=")
    THEN Some(Slice(arg, RefFirst(arg, "=", 0) + 1, Len(arg)))
    ELSE None

\* What the qualifier matching, the name and the link of the text alone give
RefOfText(p) == parse_option_like(RefBeforeValue(RefUnescapedArgument(p)), context)

\* C27: for every O or RV command, the value is everything after the first
\* '=' of the argument after escape processing (it may be empty and may
\* itself contain '=', ':' or '#') and is absent when the argument has no
\* '='; plugin, entrypoint, link and name are those of the text before
\* that '=' alone, and the command is an Error exactly when that text is
\* one
C27_ValueSplit ==
    Done =>
        \A i \in 1..Len(result) :
            RefClosedOptionLike(result[i]) =>
                LET p == result[i].part
                    r == RefOfText(result[i])
                IN  IF r.ok
                    THEN /\ p.variant \in RefOptionLikeVariants
                         /\ p.value = RefValue(RefUnescapedArgument(result[i]))
                         /\ p.plugin = r.plugin
                         /\ p.entrypoint = r.entrypoint
                         /\ p.link = r.link
                         /\ p.name = r.name
                         /\ ~Contains(p.name, "=")
                    ELSE p.variant = "Error"

\* An option whose value holds a ':' and a second '=' has been parsed
C27_Witness ==
    /\ Done
    /\ Len(result) = 1
    /\ RefClosedOptionLike(result[1])
    /\ result[1].part.variant = "OptionName"
    /\ result[1].part.name = <<"a">>
    /\ result[1].part.value = Some(<<":", "=">>)

\* An option with an empty value has been parsed
C27_WitnessEmpty ==
    /\ Done
    /\ Len(result) = 1
    /\ RefClosedOptionLike(result[1])
    /\ result[1].part.variant = "ReturnValue"
    /\ result[1].part.value = Some(<<>>)

\* ------------------------------------------------------------------------
\* C28  Names without ':' and '#'
\* ------------------------------------------------------------------------

\* The text of the command of a part without its value, its qualifier or
\* 'ignore:' prefix and, for a role, its entrypoint
RefRemaining(p) ==
    LET text == RefText(p)
        rest == IF RefQualified(text) THEN RefAfterQualifier(text)
                ELSE IF IsPrefixOf(IGNORE_MARKER, text) THEN RefIgnored(text)
                ELSE text
    IN  IF RefRefersToRole(p) /\ Contains(rest, ":")
        THEN Slice(rest, RefFirst(rest, ":", 0) + 1, Len(rest))
        ELSE rest

\* The qualifier of the command of a part, if any, names a valid plugin
RefQualifierValid(p) ==
    RefQualified(RefText(p)) =>
        /\ RefIsFqcn(RefQualifierFqcn(RefText(p)))
        /\ RefIsPluginType(RefQualifierType(RefText(p)))

\* The command of a part refers to a role and has no entrypoint of its own
\* and none to inherit
RefWithoutEntrypoint(p) ==
    /\ RefRefersToRole(p)
    /\ ~Contains(RefRoleText(p), ":")
    /\ RefInherited(p) = None

\* The Error part of an invalid name
RefInvalidName(p) ==
    /\ p.part.variant = "Error"
    /\ p.part.message = C9_Prefix(p) \o InvalidOptionName(RefRemaining(p))

\* The claim as stated: no name of an OptionName or ReturnValue part has a
\* ':' or a '#', and every O or RV command whose remaining text has one is
\* the Error 'Invalid option/return value name X'
C28_Original ==
    \A k \in 1..Len(result) :
        /\ result[k].part.variant \in RefOptionLikeVariants =>
               RefValidName(result[k].part.name)
        /\ (RefOptionLikeCommand(result[k]) /\ ~RefValidName(RefRemaining(result[k]))) =>
               RefInvalidName(result[k])

\* C28: no name of an OptionName or ReturnValue part has a ':' or a '#';
\* every O or RV command whose text, after its value, its qualifier or
\* 'ignore:' prefix and, for a role, its entrypoint are removed, still has
\* a ':' or a '#' is an Error part, and its detail is 'Invalid option/return
\* value name X' with X that remaining text, unless the qualifier is not a
\* valid plugin or the command refers to a role without any entrypoint,
\* which are reported first.
C28_ValidNames ==
    \A k \in 1..Len(result) :
        /\ result[k].part.variant \in RefOptionLikeVariants =>
               RefValidName(result[k].part.name)
        /\ (RefOptionLikeCommand(result[k]) /\ ~RefValidName(RefRemaining(result[k]))) =>
               /\ result[k].part.variant = "Error"
               /\ (RefQualifierValid(result[k]) /\ ~RefWithoutEntrypoint(result[k])) =>
                      RefInvalidName(result[k])

\* The Error part of a command that refers to a role by its qualifier and
\* whose text after the entrypoint still has a ':'
C28_Witness ==
    \E k \in 1..Len(result) :
        /\ RefOptionLikeCommand(result[k])
        /\ RefQualified(RefText(result[k]))
        /\ RefRefersToRole(result[k])
        /\ Contains(RefRemaining(result[k]), ":")
        /\ RefInvalidName(result[k])

\* ------------------------------------------------------------------------
\* C29  The P command
\* ------------------------------------------------------------------------

\* The Error part of a command with the given detail
RefErrorOf(p, detail) == PartError(C9_Prefix(p) \o detail)

\* The part of a P command whose argument has a '#': the fqcn before the
\* first '#' is validated, then the type after it
RefPluginPart(p, arg) ==
    IF ~RefIsFqcn(RefPluginFqcn(arg))
    THEN RefErrorOf(p, <<"Plugin name ">> \o Debug(RefPluginFqcn(arg))
                       \o <<" is not a FQCN">>)
    ELSE IF ~RefIsPluginType(RefPluginType(arg))
    THEN RefErrorOf(p, <<"Plugin type ">> \o Debug(RefPluginType(arg))
                       \o <<" is not valid">>)
    ELSE PartPlugin(PluginIdentifier(RefPluginFqcn(arg), RefPluginType(arg)))

\* C29: a P command splits its argument at the first '#': without '#' it is
\* the Error 'Parameter X is not of the form FQCN#type'; a left side that
\* is not an FQCN is the Error 'Plugin name X is not a FQCN'; a right side
\* that is not a plugin type is the Error 'Plugin type X is not valid'; and
\* it is the Plugin part of both sides exactly when both are valid.
C29_PluginCommand ==
    \A k \in 1..Len(result) :
        RefCommand(result[k], <<"P">>) =>
            LET arg == RefArgument(result[k])
            IN  result[k].part =
                    IF ~Contains(arg, "#")
                    THEN RefErrorOf(result[k], <<"Parameter ">> \o Debug(arg)
                                    \o <<" is not of the form FQCN#type">>)
                    ELSE RefPluginPart(result[k], arg)

====
